---------------------------- MODULE Spec2Model ----------------------------
(***************************************************************************)
(* StadyPlanManager: device-bound registration, login, the session guard,  *)
(* the progress routes, the client-log intake and the image proxy,         *)
(* modelled from src/server.js (whose handlers src/unnamed/part_001        *)
(* repeats, except that its POST /progress hands the body to the driver    *)
(* as part_000 does), from the cookie-based routes of                      *)
(* src/unnamed/part_000 and from the browser code of the pages.            *)
(*                                                                         *)
(* The PostgreSQL store is modelled at READ COMMITTED: a transaction's     *)
(* rows are private until COMMIT, a SELECT sees committed rows only, and   *)
(* an INSERT that collides on a UNIQUE column with a row of another open   *)
(* transaction waits until that transaction ends.  Every `await` of a      *)
(* handler is one step of the model; any storage call may fail (a lost     *)
(* connection), at most MaxFaults times per run.  A table is the set of    *)
(* its rows.  server.js starts initializeDatabase from the callback of     *)
(* app.listen without awaiting it: where the progress table has the old    *)
(* TEXT structure, its DROP TABLE and CREATE TABLE are steps that run      *)
(* among the requests.                                                     *)
(*                                                                         *)
(* RegSpec runs registrations, AuthSpec logins and the guard, ProgSpec the *)
(* progress routes, logout and a registration, ClientSpec the browser's    *)
(* getDeviceId, LogSpec POST /log and ImageSpec GET /image.                *)
(***************************************************************************)
EXTENDS Integers, FiniteSets, Sequences, TLC

VARIABLES
    users,                  \* committed rows of table users
    device_registrations,   \* committed rows of table device_registrations
    progress,               \* committed rows of table progress
    nextId,                 \* next value of the SERIAL sequence users.id
    req,                    \* the requests: slot -> request record
    faults,                 \* storage calls that have failed so far
    now,                    \* the clock, in days
    variant,                \* the routes serving: "legacy" (server.js) or
                            \* "cookie" (part_000)
    secretEnv,              \* process.env.JWT_SECRET
    localStorage,           \* the browser's localStorage: key -> value
    calls,                  \* the client's getDeviceId calls so far
    logRate,                \* POST /log: key (ip) -> { count, reset }
    clock,                  \* Date.now(), in milliseconds
    logHist,                \* history: key -> the window and the requests in
                            \* it, as an observer counts them
    lastLog,                \* the last POST /log: its answer (0: none), the
                            \* entry it appended to the server log, and
                            \* whether the handler threw
    image,                  \* the GET /image requests being served
    schema                  \* the tables: "noTables", "usersOnly" (no
                            \* device_registrations yet), or all but
                            \* progress ("dropped": not created yet, or
                            \* dropped), or with the progress table: "jsonb",
                            \* or "text" (the old structure, which
                            \* initializeDatabase is about to drop)

\* the browser
client == <<localStorage, calls>>
\* the client-log intake
logs == <<logRate, clock, logHist, lastLog>>

\* the state outside the server's store and requests
others == <<localStorage, calls, logRate, clock, logHist, lastLog, image,
            schema>>

vars == <<users, device_registrations, progress, nextId, req, faults, now,
          variant, secretEnv, others>>

\* the server's store, requests, clock and configuration
server == <<users, device_registrations, progress, nextId, req, faults, now,
            variant, secretEnv, schema>>

---------------------------------------------------------------------------
\* Bounds of the model.

\* concurrent POST /register requests in RegSpec
MaxReg == 2
\* requests (login, protected) in AuthSpec
MaxAuth == 2
\* storage calls that may fail in one run
MaxFaults == 1
\* last day of the clock
MaxDay == 8
\* concurrent requests in ProgSpec
MaxProg == 2
\* getDeviceId calls in ClientSpec
MaxCalls == 4
\* POST /log requests of the first address in one window (two more than the
\* limit of the handler)
MaxLog == 122
\* POST /log requests of each other key of logRate in one window
MaxOther == 1
\* ticks of the millisecond clock in LogSpec
MaxTick == 2
\* GET /image requests in ImageSpec
MaxImage == 2
\* upstream requests the GET /image requests make in all
MaxFetch == 4

\* const LOG_LIMIT_PER_MIN = 120
LOG_LIMIT_PER_MIN == 120
\* the window of the limit: reset: now + 60_000
LogWindowMs == 60000

---------------------------------------------------------------------------
\* Values.

\* a field absent from the JSON body (JavaScript undefined)
Undefined == "undefined"
\* a field present and empty
Empty == ""

Usernames == {"alice", "bob"}
Passwords == {"pw1", "pw2"}
DeviceIds == {"devA", "devB"}

\* JavaScript truthiness of a body field: !x holds for undefined and for ""
Falsy(x) == x = Undefined \/ x = Empty

\* PostgreSQL error codes seen by the handlers
UniqueViolation == "23505"
\* a failed storage call (connection lost): an error without a 23505 code
ConnError == "ECONN"
\* a query on a table that does not exist (undefined_table)
UndefinedTable == "42P01"
NoError == "none"

\* bcrypt.hash(password, 10): one-way; the model keeps what compare needs
BcryptHash(password) == <<"bcrypt", 10, password>>

\* { settings: { theme: 'light' }, lectures: {} }
emptyProgress == [settings |-> [theme |-> "light"], lectures |-> {}]

\* part_000's lazy default:
\* { settings: { theme: 'light', currentWeekIndex: 0 }, lectures: {} }
emptyWithWeek ==
    [settings |-> [theme |-> "light", currentWeekIndex |-> 0], lectures |-> {}]

\* JSON values a request body can be besides a progress object: {} and [],
\* and req.body left undefined
EmptyObject == [json |-> "{}"]
EmptyArray == [json |-> "[]"]
UndefinedBody == [json |-> "undefined"]
\* a request without a body
AbsentBody == [json |-> "absent"]

\* express.json(): req.body for a request body.  Without a body the parser
\* leaves req.body = {} (body-parser 1.x) or undefined (2.x).
ExpressJson(raw) ==
    IF raw = AbsentBody THEN {EmptyObject, UndefinedBody} ELSE {raw}
\* const { username, password, deviceId } = req.body throwing for undefined
TypeError == "TypeError"

\* no response sent yet
NoBody == [sent |-> FALSE]
\* res.json({ error: message })
JsonError(message) == [error |-> message]

\* no Set-Cookie on the response
NoCookie == [name |-> "none"]
\* no Authorization header on the request
NoHeader == [present |-> FALSE, parts |-> <<>>]
\* no user row fetched, no identity attached
NoUser == [id |-> 0, username |-> Undefined]

NoTx == [users |-> {}, device_registrations |-> {}, progress |-> {}]

\* null: what localStorage.getItem answers for a key never set
Null == "null"

\* a browser that has not opened the pages yet
NoClient ==
    /\ localStorage = [key \in {"deviceId", "theme"} |-> Null]
    /\ calls = <<>>

\* logRate.get(ip) of a key never set
NoEntry == [present |-> FALSE, count |-> 0, reset |-> 0]

\* const logRate = new Map(): no address counted, nothing logged
NoLogs ==
    /\ logRate = [ip \in {"203.0.113.7", "198.51.100.9", "unknown"} |-> NoEntry]
    /\ clock = 0
    /\ logHist = [ip \in {"203.0.113.7", "198.51.100.9", "unknown"} |->
                    [present |-> FALSE, start |-> 0, n |-> 0]]
    /\ lastLog = [ip |-> "none", status |-> 0, level |-> "none", src |-> "none",
                  threw |-> FALSE]

\* GET /image before it is requested.  fetched lists the upstream requests
\* made for the request, with the Referer of each and what it met
NoRequest ==
    [pc |-> "idle", raw |-> [given |-> FALSE, wellFormed |-> FALSE,
                             scheme |-> "", host |-> <<>>],
     hostname |-> <<>>, fetched |-> <<>>, lastStatus |-> 0, status |-> 0,
     body |-> "none", contentType |-> "unset", cacheControl |-> "unset",
     xUpstreamStatus |-> "unset"]

\* no GET /image has arrived
NoImage == image = [s \in 1..MaxImage |-> NoRequest]

\* initializeDatabase found the progress table in its JSONB structure, or
\* has finished recreating it
SchemaReady == schema = "jsonb"

\* the tables that exist: initializeDatabase creates users, then
\* device_registrations, then progress
DevicesExist == schema \notin {"noTables", "usersOnly"}
ProgressExists == schema \in {"text", "jsonb"}

\* everything outside the server at rest
OthersInit == NoClient /\ NoLogs /\ NoImage

\* A request.  deviceSeen, nameSeen and rowSeen are history: whether a
\* committed row with the request's deviceId (username, user id) existed when
\* the request started; rowFound is whether the SELECT of a GET /progress
\* returned a row.  raw is the body sent and doc the req.body the handler
\* sees.  queries counts the handler's pool.query calls, and
\* stamp numbers the successful progress reads and writes in their order.
\* responses counts the responses sent, acquires and releases the
\* pool.connect() and client.release() calls, and txlog lists the BEGIN,
\* COMMIT and ROLLBACK statements attempted.
EmptyReq ==
    [kind |-> "none", pc |-> "idle",
     username |-> Undefined, password |-> Undefined, deviceId |-> Undefined,
     hashedPassword |-> Undefined,
     tx |-> NoTx, inTx |-> FALSE, client |-> FALSE,
     newUser |-> 0, error |-> NoError,
     status |-> 0, body |-> NoBody, cookie |-> NoCookie,
     header |-> NoHeader, user |-> NoUser, row |-> NoUser, at |-> 0,
     deviceSeen |-> FALSE, nameSeen |-> FALSE,
     cookieIn |-> [form |-> "null"], raw |-> UndefinedBody,
     doc |-> UndefinedBody,
     queries |-> 0, stamp |-> 0, rowSeen |-> FALSE, rowFound |-> FALSE, notice |-> FALSE,
     responses |-> 0, acquires |-> 0, releases |-> 0, txlog |-> <<>>]

Slots == DOMAIN req

---------------------------------------------------------------------------
\* The store.

\* (mutant) the device lookup finds nothing
deviceCheckEmpty(deviceId) == {}

\* SELECT * FROM device_registrations WHERE device_id = $1 (committed rows)
deviceCheck(deviceId) == {d \in device_registrations : d.device_id = deviceId}

\* (mutant) users.username without its UNIQUE constraint
UsernameNotUnique(username) == FALSE

\* users.username UNIQUE: a committed row carries the username
UsernameTaken(username) == \E u \in users : u.username = username

\* a row of another open transaction carries the username: the INSERT waits
UsernamePending(r, username) ==
    \E q \in Slots \ {r} : \E u \in req[q].tx.users : u.username = username

\* (mutant) device_registrations.device_id without its UNIQUE constraint
DeviceIdNotUnique(deviceId) == FALSE

\* device_registrations.device_id UNIQUE: a committed row carries the id
DeviceIdTaken(deviceId) ==
    \E d \in device_registrations : d.device_id = deviceId

\* (mutant) the INSERT does not wait for an open transaction's row
DeviceIdNeverPending(r, deviceId) == FALSE

\* a row of another open transaction carries the device id: the INSERT waits
DeviceIdPending(r, deviceId) ==
    \E q \in Slots \ {r} :
        \E d \in req[q].tx.device_registrations : d.device_id = deviceId

\* (mutant) COMMIT replaces the users table by the transaction's rows
CommitUsersReplacing(tx) == tx.users

\* progress.user_id PRIMARY KEY
ProgressKeyTaken(userId) == \E p \in progress : p.user_id = userId

\* COMMIT: the transaction's rows join the committed tables
CommitUsers(tx) == users \cup tx.users
CommitDevices(tx) == device_registrations \cup tx.device_registrations
CommitProgress(tx) == progress \cup tx.progress

\* ROLLBACK (or the transaction's connection ending): its rows are dropped
RolledBack(tx) == NoTx

---------------------------------------------------------------------------
\* POST /register

\* if (!username || !password || !deviceId)
MissingField(username, password, deviceId) ==
    Falsy(username) \/ Falsy(password) \/ Falsy(deviceId)

\* the outer catch: 23505 -> 409, anything else -> 500
RegisterErrorStatus(code) == IF code = UniqueViolation THEN 409 ELSE 500

RegisterErrorBody(code) ==
    IF code = UniqueViolation THEN JsonError("USERNAME_EXISTS")
    ELSE JsonError("SERVER_ERROR")

\* a storage call of this run may still fail
MayFail == faults < MaxFaults

Respond(r, status, body) ==
    [req[r] EXCEPT !.pc = "done", !.status = status, !.body = body,
                   !.responses = @ + 1]

\* the handler starts with a body that is an object: the fields are read
\* and validated, and bcrypt.hash(password, 10) is called
RegStart(r, username, password, deviceId) ==
    /\ req[r].pc = "idle"
    /\ req' = [req EXCEPT ![r] =
         IF MissingField(username, password, deviceId)
         THEN [EmptyReq EXCEPT !.kind = "register", !.pc = "done",
                 !.username = username, !.password = password,
                 !.deviceId = deviceId,
                 !.status = 400, !.body = JsonError("FIELDS_REQUIRED"),
                 !.responses = 1]
         ELSE [EmptyReq EXCEPT !.kind = "register", !.pc = "hash",
                 !.username = username, !.password = password,
                 !.deviceId = deviceId,
                 !.deviceSeen =
                     (\E x \in device_registrations : x.device_id = deviceId),
                 !.nameSeen = (\E u \in users : u.username = username)]]
    /\ UNCHANGED <<users, device_registrations, progress, nextId, faults, now, variant, secretEnv, others>>

\* the handler starts for a request without a body: with req.body = {} every
\* field is undefined and the answer is 400; with req.body undefined the
\* destructuring throws, inside the try of server.js (the outer catch
\* answers 500) and before the try of part_000 (the handler ends without
\* an answer)
RegStartNoBody(r) ==
    /\ req[r].pc = "idle"
    /\ \E body \in ExpressJson(AbsentBody) :
          req' = [req EXCEPT ![r] =
             IF body = EmptyObject
             THEN [EmptyReq EXCEPT !.kind = "register", !.pc = "done",
                     !.raw = AbsentBody, !.doc = body,
                     !.status = 400, !.body = JsonError("FIELDS_REQUIRED"),
                     !.responses = 1]
             ELSE IF variant = "legacy"
             THEN [EmptyReq EXCEPT !.kind = "register", !.pc = "done",
                     !.raw = AbsentBody, !.doc = body, !.error = TypeError,
                     !.status = RegisterErrorStatus(TypeError),
                     !.body = RegisterErrorBody(TypeError),
                     !.responses = 1]
             ELSE [EmptyReq EXCEPT !.kind = "register", !.pc = "done",
                     !.raw = AbsentBody, !.doc = body, !.error = TypeError]]
    /\ UNCHANGED <<users, device_registrations, progress, nextId, faults, now, variant, secretEnv, others>>

\* const hashedPassword = await bcrypt.hash(password, 10)
RegHash(r) ==
    /\ req[r].kind = "register" /\ req[r].pc = "hash"
    /\ req' = [req EXCEPT ![r].pc = "connect",
                          ![r].hashedPassword = BcryptHash(req[r].password)]
    /\ UNCHANGED <<users, device_registrations, progress, nextId, faults, now, variant, secretEnv, others>>

\* const client = await pool.connect()
RegConnect(r) ==
    /\ req[r].kind = "register" /\ req[r].pc = "connect"
    /\ \/ /\ req' = [req EXCEPT ![r].pc = "begin", ![r].client = TRUE,
                                 ![r].acquires = @ + 1]
          /\ UNCHANGED faults
       \/ /\ MayFail
          /\ faults' = faults + 1
          /\ req' = [req EXCEPT ![r] =
                [Respond(r, RegisterErrorStatus(ConnError), RegisterErrorBody(ConnError))
                    EXCEPT !.error = ConnError]]
    /\ UNCHANGED <<users, device_registrations, progress, nextId, now, variant, secretEnv, others>>

\* await client.query('BEGIN')
RegBegin(r) ==
    /\ req[r].kind = "register" /\ req[r].pc = "begin"
    /\ \/ /\ req' = [req EXCEPT ![r].pc = "deviceCheck", ![r].inTx = TRUE,
                                 ![r].txlog = Append(@, "BEGIN")]
          /\ UNCHANGED faults
       \/ /\ MayFail
          /\ faults' = faults + 1
          /\ req' = [req EXCEPT ![r].pc = "catch", ![r].error = ConnError,
                                 ![r].txlog = Append(@, "BEGIN")]
    /\ UNCHANGED <<users, device_registrations, progress, nextId, now, variant, secretEnv, others>>

\* const deviceCheck = await client.query('SELECT ...'); if (rowCount > 0)
RegDeviceCheck(r) ==
    /\ req[r].kind = "register" /\ req[r].pc = "deviceCheck"
    /\ \/ /\ DevicesExist
          /\ req' = [req EXCEPT ![r].pc =
                IF Cardinality(deviceCheck(req[r].deviceId)) > 0
                THEN "rollback403" ELSE "insertUser"]
          /\ UNCHANGED faults
       \/ /\ ~DevicesExist
          /\ req' = [req EXCEPT ![r].pc = "catch", ![r].error = UndefinedTable]
          /\ UNCHANGED faults
       \/ /\ MayFail
          /\ faults' = faults + 1
          /\ req' = [req EXCEPT ![r].pc = "catch", ![r].error = ConnError]
    /\ UNCHANGED <<users, device_registrations, progress, nextId, now, variant, secretEnv, others>>

\* (mutant) the device-conflict path returns without releasing the connection
RegDeviceUsedKeepsClient(r) ==
    /\ req[r].kind = "register" /\ req[r].pc = "rollback403"
    /\ req' = [req EXCEPT ![r] =
          [Respond(r, 403, JsonError("DEVICE_USED")) EXCEPT
              !.tx = RolledBack(req[r].tx), !.inTx = FALSE,
              !.txlog = Append(@, "ROLLBACK")]]
    /\ UNCHANGED <<users, device_registrations, progress, nextId, faults, now, variant, secretEnv, others>>

\* (mutant) the device-conflict path answers 403 and then throws into the
\* catch blocks
RegDeviceUsedThrows(r) ==
    /\ req[r].kind = "register" /\ req[r].pc = "rollback403"
    /\ req' = [req EXCEPT ![r] =
          [Respond(r, 403, JsonError("DEVICE_USED")) EXCEPT
              !.pc = "catch", !.error = ConnError,
              !.txlog = Append(@, "ROLLBACK")]]
    /\ UNCHANGED <<users, device_registrations, progress, nextId, faults, now, variant, secretEnv, others>>

\* await client.query('ROLLBACK'); return res.status(403)...; finally release
RegDeviceUsed(r) ==
    /\ req[r].kind = "register" /\ req[r].pc = "rollback403"
    /\ \/ /\ req' = [req EXCEPT ![r] =
                [Respond(r, 403, JsonError("DEVICE_USED")) EXCEPT
                    !.tx = RolledBack(req[r].tx), !.inTx = FALSE, !.client = FALSE,
                    !.txlog = Append(@, "ROLLBACK"), !.releases = @ + 1]]
          /\ UNCHANGED faults
       \/ /\ MayFail
          /\ faults' = faults + 1
          /\ req' = [req EXCEPT ![r].pc = "catch", ![r].error = ConnError,
                                 ![r].txlog = Append(@, "ROLLBACK")]
    /\ UNCHANGED <<users, device_registrations, progress, nextId, now, variant, secretEnv, others>>

\* INSERT INTO users (username, password) VALUES ($1, $2) RETURNING id, username
RegInsertUser(r) ==
    /\ req[r].kind = "register" /\ req[r].pc = "insertUser"
    /\ \/ /\ ~UsernamePending(r, req[r].username)
          /\ nextId' = nextId + 1
          /\ req' = [req EXCEPT ![r] =
                IF UsernameTaken(req[r].username)
                THEN [req[r] EXCEPT !.pc = "catch", !.error = UniqueViolation]
                ELSE [req[r] EXCEPT !.pc = "insertDevice", !.newUser = nextId,
                        !.tx.users = @ \cup
                            {[id |-> nextId, username |-> req[r].username,
                              password |-> req[r].hashedPassword]}]]
          /\ UNCHANGED faults
       \/ /\ MayFail
          /\ faults' = faults + 1
          /\ req' = [req EXCEPT ![r].pc = "catch", ![r].error = ConnError]
          /\ UNCHANGED nextId
    /\ UNCHANGED <<users, device_registrations, progress, now, variant, secretEnv, others>>

\* INSERT INTO device_registrations (device_id, user_id) VALUES ($1, $2)
RegInsertDevice(r) ==
    /\ req[r].kind = "register" /\ req[r].pc = "insertDevice"
    /\ \/ /\ ~DeviceIdPending(r, req[r].deviceId)
          /\ req' = [req EXCEPT ![r] =
                IF DeviceIdTaken(req[r].deviceId)
                THEN [req[r] EXCEPT !.pc = "catch", !.error = UniqueViolation]
                ELSE [req[r] EXCEPT !.pc = "insertProgress",
                        !.tx.device_registrations = @ \cup
                            {[device_id |-> req[r].deviceId,
                              user_id |-> req[r].newUser]}]]
          /\ UNCHANGED faults
       \/ /\ MayFail
          /\ faults' = faults + 1
          /\ req' = [req EXCEPT ![r].pc = "catch", ![r].error = ConnError]
    /\ UNCHANGED <<users, device_registrations, progress, nextId, now, variant, secretEnv, others>>

\* the default document as the data column holds it: the JSONB value, or in
\* the old structure its JSON text
StoredDefault ==
    IF schema = "text" THEN [json_of |-> emptyProgress] ELSE emptyProgress

\* INSERT INTO progress (user_id, data) VALUES ($1, $2)
RegInsertProgress(r) ==
    /\ req[r].kind = "register" /\ req[r].pc = "insertProgress"
    /\ \/ /\ ProgressExists
          /\ req' = [req EXCEPT ![r] =
                IF ProgressKeyTaken(req[r].newUser)
                THEN [req[r] EXCEPT !.pc = "catch", !.error = UniqueViolation]
                ELSE [req[r] EXCEPT !.pc = "commit",
                        !.tx.progress = @ \cup
                            {[user_id |-> req[r].newUser,
                              data |-> StoredDefault]}]]
          /\ UNCHANGED faults
       \/ /\ ~ProgressExists
          /\ req' = [req EXCEPT ![r].pc = "catch", ![r].error = UndefinedTable]
          /\ UNCHANGED faults
       \/ /\ MayFail
          /\ faults' = faults + 1
          /\ req' = [req EXCEPT ![r].pc = "catch", ![r].error = ConnError]
    /\ UNCHANGED <<users, device_registrations, progress, nextId, now, variant, secretEnv, others>>

\* await client.query('COMMIT'); res.status(201).json(newUser); finally release
RegCommit(r) ==
    /\ req[r].kind = "register" /\ req[r].pc = "commit"
    /\ \/ /\ users' = CommitUsers(req[r].tx)
          /\ device_registrations' = CommitDevices(req[r].tx)
          /\ progress' = CommitProgress(req[r].tx)
          /\ req' = [req EXCEPT ![r] =
                [Respond(r, 201, [id |-> req[r].newUser, username |-> req[r].username])
                    EXCEPT !.tx = NoTx, !.inTx = FALSE, !.client = FALSE,
                           !.txlog = Append(@, "COMMIT"), !.releases = @ + 1]]
          /\ UNCHANGED faults
       \/ /\ MayFail
          /\ faults' = faults + 1
          /\ req' = [req EXCEPT ![r].pc = "catch", ![r].error = ConnError,
                                 ![r].txlog = Append(@, "COMMIT")]
          /\ UNCHANGED <<users, device_registrations, progress>>
    /\ UNCHANGED <<nextId, now, variant, secretEnv, others>>

\* (mutant) the catch block commits where it should roll back
RegCatchCommits(r) ==
    /\ req[r].kind = "register" /\ req[r].pc = "catch"
    /\ users' = CommitUsers(req[r].tx)
    /\ device_registrations' = CommitDevices(req[r].tx)
    /\ progress' = CommitProgress(req[r].tx)
    /\ req' = [req EXCEPT ![r] =
          [Respond(r, RegisterErrorStatus(req[r].error),
                      RegisterErrorBody(req[r].error))
              EXCEPT !.tx = NoTx, !.inTx = FALSE, !.client = FALSE]]
    /\ UNCHANGED <<nextId, faults, now, variant, secretEnv, others>>

\* catch (e) { await client.query('ROLLBACK'); throw e; } finally release;
\* then the outer catch answers 409 or 500.  A failing ROLLBACK throws its
\* own error in place of e; the connection's end still drops the rows.
RegCatch(r) ==
    /\ req[r].kind = "register" /\ req[r].pc = "catch"
    /\ \/ /\ req' = [req EXCEPT ![r] =
                [Respond(r, RegisterErrorStatus(req[r].error),
                            RegisterErrorBody(req[r].error))
                    EXCEPT !.tx = RolledBack(req[r].tx), !.inTx = FALSE,
                           !.client = FALSE,
                           !.txlog = Append(@, "ROLLBACK"), !.releases = @ + 1]]
          /\ UNCHANGED faults
       \/ /\ MayFail
          /\ faults' = faults + 1
          /\ req' = [req EXCEPT ![r] =
                [Respond(r, RegisterErrorStatus(ConnError), RegisterErrorBody(ConnError))
                    EXCEPT !.tx = RolledBack(req[r].tx), !.inTx = FALSE,
                           !.client = FALSE, !.error = ConnError,
                           !.txlog = Append(@, "ROLLBACK"), !.releases = @ + 1]]
    /\ UNCHANGED <<users, device_registrations, progress, nextId, now, variant, secretEnv, others>>

\* initializeDatabase, which the listen callback starts without awaiting it:
\* await client.query('CREATE TABLE IF NOT EXISTS users (...)') in a
\* database without tables
initializeDatabaseUsers ==
    /\ schema = "noTables"
    /\ schema' = "usersOnly"
    /\ UNCHANGED <<users, device_registrations, progress, nextId, req, faults,
                   now, variant, secretEnv, client, logs, image>>

\* initializeDatabase: await client.query('CREATE TABLE IF NOT EXISTS
\* device_registrations (...)'); the progress table is still to be created
initializeDatabaseDevices ==
    /\ schema = "usersOnly"
    /\ schema' = "dropped"
    /\ UNCHANGED <<users, device_registrations, progress, nextId, req, faults,
                   now, variant, secretEnv, client, logs, image>>

\* initializeDatabase:
\* await client.query('DROP TABLE IF EXISTS progress') for a progress table
\* of the old structure.  The statement waits for the open transactions
\* that have written to the table.
initializeDatabaseDrop ==
    /\ schema = "text"
    /\ \A r \in Slots : req[r].tx.progress = {}
    /\ progress' = {}
    /\ schema' = "dropped"
    /\ UNCHANGED <<users, device_registrations, nextId, req, faults, now,
                   variant, secretEnv, client, logs, image>>

\* initializeDatabase: await client.query('CREATE TABLE progress (...
\* data JSONB ... FOREIGN KEY (user_id) REFERENCES users (id) ...)'), after
\* the DROP TABLE IF EXISTS of a table that was dropped or never existed.
\* The statement waits for the open transactions that have written to users.
initializeDatabaseCreate ==
    /\ schema = "dropped"
    /\ \A r \in Slots : req[r].tx.users = {}
    /\ schema' = "jsonb"
    /\ UNCHANGED <<users, device_registrations, progress, nextId, req, faults,
                   now, variant, secretEnv, client, logs, image>>

\* the request bodies tried: complete bodies (bob on either device, alice on
\* the first), and bodies with one field absent or empty
RegBodies ==
    ([username : Usernames, password : {"pw1"}, deviceId : DeviceIds]
        \ {[username |-> "alice", password |-> "pw1", deviceId |-> "devB"]})
    \cup [username : {"bob"}, password : {"pw1"}, deviceId : {Undefined}]
    \cup [username : {Undefined}, password : {"pw1"}, deviceId : {"devA"}]
    \cup [username : {"alice"}, password : {Empty}, deviceId : {"devA"}]

RegNext ==
    \/ \E r \in Slots, b \in RegBodies :
          RegStart(r, b.username, b.password, b.deviceId)
    \/ \E r \in Slots : RegStartNoBody(r)
    \/ \E r \in Slots : RegHash(r)
    \/ \E r \in Slots : RegConnect(r)
    \/ \E r \in Slots : RegBegin(r)
    \/ \E r \in Slots : RegDeviceCheck(r)
    \/ \E r \in Slots : RegDeviceUsed(r)
    \/ \E r \in Slots : RegInsertUser(r)
    \/ \E r \in Slots : RegInsertDevice(r)
    \/ \E r \in Slots : RegInsertProgress(r)
    \/ \E r \in Slots : RegCommit(r)
    \/ \E r \in Slots : RegCatch(r)
    \/ initializeDatabaseUsers
    \/ initializeDatabaseDevices
    \/ initializeDatabaseDrop
    \/ initializeDatabaseCreate

\* the rows one committed registration leaves
UserRow(id, username, password) ==
    [id |-> id, username |-> username, password |-> BcryptHash(password)]
DeviceRow(deviceId, id) == [device_id |-> deviceId, user_id |-> id]
ProgressRow(id, data) == [user_id |-> id, data |-> data]

\* the store holding the first n registrations of alice@devA, bob@devB
StoreAfter(n) ==
    /\ users = {UserRow(1, "alice", "pw1")} \cup
               (IF n > 1 THEN {UserRow(2, "bob", "pw2")} ELSE {})
    /\ device_registrations = {DeviceRow("devA", 1)} \cup
               (IF n > 1 THEN {DeviceRow("devB", 2)} ELSE {})
    /\ progress = {ProgressRow(1, emptyProgress)} \cup
               (IF n > 1 THEN {ProgressRow(2, emptyProgress)} ELSE {})
    /\ nextId = n + 1

\* an encrypted document of the old structure
OldText == [text |-> "encrypted"]

\* the store an earlier version left: alice@devA, and a progress table whose
\* data column is TEXT
StoreOld ==
    /\ users = {UserRow(1, "alice", "pw1")}
    /\ device_registrations = {DeviceRow("devA", 1)}
    /\ progress = {ProgressRow(1, OldText)}
    /\ nextId = 2

\* that store after initializeDatabase dropped and recreated progress
StoreRecreated ==
    /\ users = {UserRow(1, "alice", "pw1")}
    /\ device_registrations = {DeviceRow("devA", 1)}
    /\ progress = {}
    /\ nextId = 2

EmptyStore ==
    /\ users = {}
    /\ device_registrations = {}
    /\ progress = {}
    /\ nextId = 1

\* server.js starts listening.  initializeDatabase has finished: the tables
\* as it creates them (empty), or as one earlier registration (alice on
\* devA) left them, or with the progress table recreated.  Or it has not:
\* the database has no table yet (a first start), or the tables that an
\* earlier start created before it failed, or a progress table of the old
\* structure that is still to be dropped.
RegInit ==
    /\ OthersInit
    /\ \/ (EmptyStore \/ StoreAfter(1) \/ StoreRecreated) /\ SchemaReady
       \/ EmptyStore /\ schema \in {"noTables", "usersOnly", "dropped"}
       \/ StoreOld /\ schema = "text"
    /\ req = [r \in 1..MaxReg |-> EmptyReq]
    /\ faults = 0
    /\ now = 0
    /\ variant = "legacy"
    /\ secretEnv = "configured-secret"

RegSpec == RegInit /\ [][RegNext]_vars

---------------------------------------------------------------------------
\* Tokens (jsonwebtoken, HS256).

\* expiresIn: '7d', in days
ExpiresInDays == 7

\* server.js: 'your-default-jwt-secret-key'
DefaultSecretLegacy == "your-default-jwt-secret-key"
\* part_000: 'your-default-jwt-secret-key-for-planner'
DefaultSecretPlanner == "your-default-jwt-secret-key-for-planner"

\* const JWT_SECRET = process.env.JWT_SECRET || '<default>'
JWT_SECRET ==
    IF Falsy(secretEnv)
    THEN (IF variant = "legacy" THEN DefaultSecretLegacy ELSE DefaultSecretPlanner)
    ELSE secretEnv

\* the HMAC of a payload under a key: equal only for the same payload and key
Mac(payload, secret) == <<"HS256", payload, secret>>

\* jwt.sign({ id, username }, secret, { expiresIn: '7d' }) at time t
JwtSign(id, username, secret, t) ==
    LET payload == [id |-> id, username |-> username,
                    iat |-> t, exp |-> t + ExpiresInDays]
    IN  [form |-> "jwt", payload |-> payload, sig |-> Mac(payload, secret)]

\* (mutant) jwt.verify checks the signature against another key
JwtVerifyOtherKey(token, secret, t) ==
    /\ token.form = "jwt"
    /\ token.sig = Mac(token.payload, "another-secret")
    /\ t < token.payload.exp

\* (mutant) jwt.verify with ignoreExpiration
JwtVerifyIgnoringExpiry(token, secret, t) ==
    /\ token.form = "jwt"
    /\ token.sig = Mac(token.payload, secret)

\* jwt.verify(token, secret) at time t: the signature matches and the token
\* has not expired (it expires once t >= exp)
JwtVerify(token, secret, t) ==
    /\ token.form = "jwt"
    /\ token.sig = Mac(token.payload, secret)
    /\ t < token.payload.exp

\* what authHeader.split(' ')[1] can be besides a token
NullToken == [form |-> "null"]
EmptyToken == [form |-> "empty"]
GarbageToken == [form |-> "garbage"]

\* part_000: maxAge: 7 * 24 * 60 * 60 * 1000, in milliseconds
CookieMaxAge == 7 * 24 * 60 * 60 * 1000

\* (mutant) bcrypt.compare accepts any password
BcryptCompareAny(password, hash) == TRUE

\* bcrypt.compare(password, hash) for a string password
BcryptCompare(password, hash) == hash = BcryptHash(password)

---------------------------------------------------------------------------
\* POST /login

\* SELECT * FROM users WHERE username = $1 (an undefined parameter is NULL)
UsersByName(username) == {u \in users : u.username = username}

\* the answer to a username without a row
LoginNoUserStatus == IF variant = "legacy" THEN 400 ELSE 401
LoginNoUserBody ==
    IF variant = "legacy" THEN JsonError("USER_NOT_FOUND")
    ELSE [text |-> "INVALID_CREDENTIALS"]

\* the answer to a password that does not match
LoginWrongPasswordStatus == 401
LoginWrongPasswordBody ==
    IF variant = "legacy" THEN JsonError("WRONG_PASSWORD")
    ELSE [text |-> "INVALID_CREDENTIALS"]

\* the catch block's answer
LoginErrorBody ==
    IF variant = "legacy" THEN JsonError("SERVER_ERROR")
    ELSE [text |-> "SERVER_ERROR"]

\* the handler starts: the body is read, the users query is awaited
LoginStart(r, username, password) ==
    /\ req[r].pc = "idle"
    /\ req' = [req EXCEPT ![r] =
          [EmptyReq EXCEPT !.kind = "login", !.pc = "findUser",
              !.username = username, !.password = password,
              !.nameSeen = (\E u \in users : u.username = username)]]
    /\ UNCHANGED <<users, device_registrations, progress, nextId, faults, now, variant, secretEnv, others>>

\* const { rows } = await pool.query(...); if (rows.length === 0) ...
LoginFindUser(r) ==
    /\ req[r].kind = "login" /\ req[r].pc = "findUser"
    /\ \/ /\ req' = [req EXCEPT ![r] =
                IF UsersByName(req[r].username) = {}
                THEN Respond(r, LoginNoUserStatus, LoginNoUserBody)
                ELSE [req[r] EXCEPT !.pc = "compare",
                        !.row = CHOOSE u \in UsersByName(req[r].username) : TRUE]]
          /\ UNCHANGED faults
       \/ /\ MayFail
          /\ faults' = faults + 1
          /\ req' = [req EXCEPT ![r] =
                [Respond(r, 500, LoginErrorBody) EXCEPT !.error = ConnError]]
    /\ UNCHANGED <<users, device_registrations, progress, nextId, now, variant, secretEnv, others>>

\* if (await bcrypt.compare(password, user.password)) { sign, answer } else 401.
\* bcrypt.compare rejects an undefined password ("data and hash arguments
\* required"): the catch block answers 500.
LoginCompare(r) ==
    /\ req[r].kind = "login" /\ req[r].pc = "compare"
    /\ req' = [req EXCEPT ![r] =
          IF req[r].password = Undefined
          THEN [Respond(r, 500, LoginErrorBody) EXCEPT !.error = "BCRYPT_ARGS"]
          ELSE IF BcryptCompare(req[r].password, req[r].row.password)
          THEN LET accessToken ==
                     JwtSign(req[r].row.id, req[r].row.username, JWT_SECRET, now)
               IN  IF variant = "legacy"
                   THEN Respond(r, 200, [accessToken |-> accessToken])
                   ELSE [Respond(r, 302, [redirect |-> "/app"]) EXCEPT
                           !.cookie = [name |-> "accessToken",
                                       value |-> accessToken,
                                       httpOnly |-> TRUE,
                                       maxAge |-> CookieMaxAge]]
          ELSE Respond(r, LoginWrongPasswordStatus, LoginWrongPasswordBody)]
    /\ UNCHANGED <<users, device_registrations, progress, nextId, faults, now, variant, secretEnv, others>>

---------------------------------------------------------------------------
\* The session guard of server.js: authenticateToken.

\* the tokens login has handed out so far
IssuedTokens ==
    {req[r].body.accessToken :
        r \in {q \in Slots : req[q].kind = "login" /\ req[q].status = 200}}

\* a token whose payload was changed after signing
Tampered(token) == [token EXCEPT !.payload.id = @ + 1]
\* a token signed by someone who does not hold the secret
SelfSigned(token) ==
    [token EXCEPT !.sig = Mac(token.payload, "attacker-secret")]

\* the Authorization headers a client may send
Bearer(token) == [present |-> TRUE, parts |-> <<"Bearer", token>>]
Headers ==
    {NoHeader, [present |-> TRUE, parts |-> <<>>],
     [present |-> TRUE, parts |-> <<"Bearer">>], Bearer(GarbageToken)}
    \cup {Bearer(t) : t \in IssuedTokens}
    \cup {Bearer(Tampered(t)) : t \in IssuedTokens}
    \cup {Bearer(SelfSigned(t)) : t \in IssuedTokens}

\* const token = authHeader && authHeader.split(' ')[1]
HeaderToken(authHeader) ==
    IF ~authHeader.present THEN NullToken
    ELSE IF authHeader.parts = <<>> THEN EmptyToken
    ELSE IF Len(authHeader.parts) >= 2 THEN authHeader.parts[2]
    ELSE NullToken

\* (mutant) the guard decodes the token without verifying it
authenticateTokenDecoding(authHeader, t) ==
    LET token == HeaderToken(authHeader)
    IN  IF token = NullToken THEN [status |-> 401, user |-> NoUser]
        ELSE IF token.form # "jwt" THEN [status |-> 403, user |-> NoUser]
        ELSE [status |-> 0, user |-> token.payload]

\* authenticateToken: 401 without a token, 403 when jwt.verify fails,
\* otherwise req.user = the payload (0: next() is called)
authenticateToken(authHeader, t) ==
    LET token == HeaderToken(authHeader)
    IN  IF token = NullToken THEN [status |-> 401, user |-> NoUser]
        ELSE IF ~JwtVerify(token, JWT_SECRET, t) THEN [status |-> 403, user |-> NoUser]
        ELSE [status |-> 0, user |-> token.payload]

\* a request to a protected route of server.js meets the guard
Protected(r, authHeader) ==
    /\ variant = "legacy"
    /\ req[r].pc = "idle"
    /\ LET guard == authenticateToken(authHeader, now)
       IN  req' = [req EXCEPT ![r] =
              [EmptyReq EXCEPT !.kind = "protected", !.header = authHeader,
                  !.at = now,
                  !.pc = IF guard.status = 0 THEN "handler" ELSE "done",
                  !.status = guard.status, !.user = guard.user,
                  !.responses = IF guard.status = 0 THEN 0 ELSE 1]]
    /\ UNCHANGED <<users, device_registrations, progress, nextId, faults, now, variant, secretEnv, others>>

\* the days on which requests arrive: the day of the first login, the last
\* day its token is valid, the day it expires, and the last day of the clock
Instants == {0, ExpiresInDays - 1, ExpiresInDays, MaxDay}

\* time passes, to the next such day
Tick ==
    /\ \E d \in Instants : d > now
    /\ now' = CHOOSE d \in Instants : d > now /\ \A e \in Instants : e > now => d <= e
    /\ UNCHANGED <<users, device_registrations, progress, nextId, req, faults, variant, secretEnv, others>>

\* the login bodies tried: a registered and an unknown username with a right,
\* a wrong and an absent password, and a body without username
LoginBodies ==
    [username : {"alice", "bob"}, password : {"pw1", "pw2", Undefined}]
    \cup [username : {Undefined}, password : {"pw1"}]

AuthNext ==
    \/ \E r \in Slots, b \in LoginBodies : LoginStart(r, b.username, b.password)
    \/ \E r \in Slots : LoginFindUser(r)
    \/ \E r \in Slots : LoginCompare(r)
    \/ \E r \in Slots, h \in Headers : Protected(r, h)
    \/ Tick

\* part_002, the server of the cookie routes: if (!process.env.JWT_SECRET ||
\* process.env.JWT_SECRET === 'your-default-jwt-secret-key-for-planner')
\* process.exit(1).  server.js has no such check.
StartupExits ==
    variant = "cookie" /\ (Falsy(secretEnv) \/ secretEnv = DefaultSecretPlanner)

\* the store after alice's registration; the secret unset, set to the planner
\* default or configured, in a server that got past its startup
AuthInit ==
    /\ OthersInit /\ SchemaReady
    /\ StoreAfter(1)
    /\ req = [r \in 1..MaxAuth |-> EmptyReq]
    /\ faults = 0
    /\ now = 0
    /\ variant \in {"legacy", "cookie"}
    /\ secretEnv \in {Undefined, DefaultSecretPlanner, "configured-secret"}
    /\ ~StartupExits

AuthSpec == AuthInit /\ [][AuthNext]_vars

---------------------------------------------------------------------------
\* The progress routes: GET and POST /api/progress of server.js ("legacy"),
\* GET and POST /progress and POST /logout of part_000 ("cookie").

\* (spec-modelled) the guard of the cookie routes, required by part_000 from
\* ../middleware/authenticateToken: the token is read from the accessToken
\* cookie; 401 without one, 403 when it does not verify
authenticateTokenCookie(cookieToken, t) ==
    IF cookieToken = NullToken THEN [status |-> 401, user |-> NoUser]
    ELSE IF ~JwtVerify(cookieToken, JWT_SECRET, t) THEN [status |-> 403, user |-> NoUser]
    ELSE [status |-> 0, user |-> cookieToken.payload]

\* the guard of the serving routes meeting a request that carries the token
\* (as a Bearer header, or as the cookie)
Guard(token) ==
    IF variant = "legacy"
    THEN authenticateToken(IF token = NullToken THEN NoHeader ELSE Bearer(token), now)
    ELSE authenticateTokenCookie(token, now)

\* the token login signs for a user row on day d
LoginToken(u, d) == JwtSign(u.id, u.username, JWT_SECRET, d)

\* the tokens clients send: none, today's token of every user, and for the
\* first user a token of day 0 and a tampered one
ProgTokens ==
    {NullToken}
    \cup {LoginToken(u, now) : u \in users}
    \cup {LoginToken(u, 0) : u \in {x \in users : x.id = 1}}
    \cup {Tampered(LoginToken(u, now)) : u \in {x \in users : x.id = 1}}

\* the cookies sent with POST /logout: none, or today's token of a user
LogoutTokens == {NullToken} \cup {LoginToken(u, now) : u \in users}

\* SELECT data FROM progress WHERE user_id = $1
RowsOf(userId) == {p \in progress : p.user_id = userId}

\* progress documents clients save
\* a document that names another user
DocForged == [user_id |-> 1, settings |-> [theme |-> "dark"]]
ProgBodies == {DocForged, EmptyArray, AbsentBody}


\* JSON.stringify(value): the JSON text of a value
JsonStringify(value) ==
    IF value = EmptyObject THEN [literal |-> "{}"]
    ELSE IF value = EmptyArray THEN [literal |-> "[]"]
    ELSE [json_of |-> value]

\* the driver's text for a query parameter: a JavaScript array becomes a
\* PostgreSQL array literal ('{}' when empty), any other object its JSON
\* text, a string itself
PgPrepareValue(value) ==
    IF value = EmptyArray THEN [literal |-> "{}"]
    ELSE IF "literal" \in DOMAIN value \/ "json_of" \in DOMAIN value THEN value
    ELSE JsonStringify(value)

\* the JSONB value PostgreSQL reads from a parameter's text
JsonbIn(text) ==
    IF "literal" \in DOMAIN text
    THEN (IF text.literal = "{}" THEN EmptyObject ELSE EmptyArray)
    ELSE text.json_of

\* what the data column holds for a parameter's text: the JSONB value, or in
\* the old structure the text itself (which a SELECT returns as a string)
ColumnIn(text) == IF schema = "text" THEN text ELSE JsonbIn(text)

\* the $2 of the upsert: server.js passes JSON.stringify(progressData),
\* part_000 passes progressData
ProgressParam(progressData) ==
    IF variant = "legacy" THEN JsonStringify(progressData) ELSE progressData

\* (mutant) the upsert takes the row's key from the document when it names one
UpsertKeyFromBody(userId, param) ==
    LET data == JsonbIn(PgPrepareValue(param))
        key == IF "user_id" \in DOMAIN data THEN data.user_id ELSE userId
    IN  (progress \ RowsOf(key)) \cup {[user_id |-> key, data |-> data]}

\* INSERT INTO progress (user_id, data) VALUES ($1, $2)
\* ON CONFLICT (user_id) DO UPDATE SET data = $2: the table afterwards
Upsert(userId, param) ==
    (progress \ RowsOf(userId)) \cup
    {[user_id |-> userId, data |-> ColumnIn(PgPrepareValue(param))]}

\* the number of the next successful progress read or write
NextStamp == 1 + Cardinality({q \in Slots : req[q].stamp > 0})

\* the answers of the catch blocks
GetErrorBody ==
    IF variant = "legacy" THEN JsonError("SERVER_ERROR")
    ELSE [error |-> "LOAD_FAILED", code |-> "PROGRESS_LOAD_FAILED"]
PostErrorBody == JsonError("SERVER_ERROR")

\* a request after the guard: rejected and answered, or on to the handler
Guarded(kind, token, first) ==
    LET guard == Guard(token)
    IN  [EmptyReq EXCEPT !.kind = kind, !.at = now,
            !.header = IF variant = "legacy" /\ token # NullToken
                       THEN Bearer(token) ELSE NoHeader,
            !.cookieIn = IF variant = "cookie" THEN token ELSE NullToken,
            !.pc = IF guard.status = 0 THEN first ELSE "done",
            !.status = guard.status, !.user = guard.user,
            !.responses = IF guard.status = 0 THEN 0 ELSE 1,
            !.rowSeen = guard.status = 0 /\ RowsOf(guard.user.id) # {}]

\* GET /progress arrives
GetStart(r, token) ==
    /\ req[r].pc = "idle"
    /\ req' = [req EXCEPT ![r] = Guarded("getProgress", token, "select")]
    /\ UNCHANGED <<users, device_registrations, progress, nextId, faults, now, variant, secretEnv, others>>

\* rows[0].data of a SELECT that found the user's row
Selected(rows) == (CHOOSE p \in rows : TRUE).data

\* const result = await pool.query('SELECT data FROM progress WHERE user_id =
\* $1', ...): the row's document is answered; without a row server.js
\* answers the default document, part_000 goes on to insert one
GetSelect(r) ==
    /\ req[r].kind = "getProgress" /\ req[r].pc = "select"
    /\ \/ /\ ProgressExists
          /\ LET rows == RowsOf(req[r].user.id)
             IN  req' = [req EXCEPT ![r] =
                    IF rows # {}
                    THEN [Respond(r, 200, Selected(rows)) EXCEPT
                            !.queries = @ + 1, !.stamp = NextStamp,
                            !.rowFound = TRUE]
                    ELSE IF variant = "legacy"
                    THEN [Respond(r, 200, emptyProgress) EXCEPT
                            !.queries = @ + 1, !.stamp = NextStamp]
                    ELSE [req[r] EXCEPT !.pc = "insert", !.queries = @ + 1]]
          /\ UNCHANGED faults
       \/ /\ ~ProgressExists
          /\ req' = [req EXCEPT ![r] =
                [Respond(r, 500, GetErrorBody) EXCEPT
                    !.queries = @ + 1, !.error = UndefinedTable]]
          /\ UNCHANGED faults
       \/ /\ MayFail
          /\ faults' = faults + 1
          /\ req' = [req EXCEPT ![r] =
                [Respond(r, 500, GetErrorBody) EXCEPT
                    !.queries = @ + 1, !.error = ConnError]]
    /\ UNCHANGED <<users, device_registrations, progress, nextId, now, variant, secretEnv, others>>

\* part_000: await pool.query('INSERT INTO progress (user_id, data) VALUES
\* ($1, $2)', [uid, empty]); X-Notice: DATA_INITIALIZED; 200 with empty.
\* The insert of a second row for the user violates the primary key.
GetInsert(r) ==
    /\ req[r].kind = "getProgress" /\ req[r].pc = "insert"
    /\ \/ /\ ProgressExists
          /\ IF ProgressKeyTaken(req[r].user.id)
             THEN /\ req' = [req EXCEPT ![r] =
                        [Respond(r, 500, GetErrorBody)
                            EXCEPT !.queries = @ + 1, !.error = UniqueViolation]]
                  /\ UNCHANGED progress
             ELSE /\ progress' = progress \cup
                        {[user_id |-> req[r].user.id,
                          data |-> ColumnIn(PgPrepareValue(emptyWithWeek))]}
                  /\ req' = [req EXCEPT ![r] =
                        [Respond(r, 200, emptyWithWeek) EXCEPT
                            !.queries = @ + 1, !.stamp = NextStamp,
                            !.notice = TRUE]]
          /\ UNCHANGED faults
       \/ /\ ~ProgressExists
          /\ req' = [req EXCEPT ![r] =
                [Respond(r, 500, GetErrorBody) EXCEPT
                    !.queries = @ + 1, !.error = UndefinedTable]]
          /\ UNCHANGED <<faults, progress>>
       \/ /\ MayFail
          /\ faults' = faults + 1
          /\ req' = [req EXCEPT ![r] =
                [Respond(r, 500, GetErrorBody) EXCEPT
                    !.queries = @ + 1, !.error = ConnError]]
          /\ UNCHANGED progress
    /\ UNCHANGED <<users, device_registrations, nextId, now, variant, secretEnv, others>>

\* if (!progressData): only an undefined body is falsy, {} and [] are not
NoData(progressData) == progressData = UndefinedBody

\* POST /progress arrives with a body: const progressData = req.body;
\* if (!progressData) return res.status(400)...
PostStart(r, token, raw) ==
    /\ req[r].pc = "idle"
    /\ \E progressData \in ExpressJson(raw) :
          LET q == Guarded("postProgress", token, "upsert")
          IN  req' = [req EXCEPT ![r] =
                 IF q.pc = "done" THEN q
                 ELSE IF NoData(progressData)
                 THEN [q EXCEPT !.pc = "done", !.status = 400, !.responses = 1,
                          !.body = JsonError("NO_DATA"), !.raw = raw,
                          !.doc = progressData]
                 ELSE [q EXCEPT !.raw = raw, !.doc = progressData]]
    /\ UNCHANGED <<users, device_registrations, progress, nextId, faults, now, variant, secretEnv, others>>

\* await pool.query(query, [req.user.id, <data>]); 200 { success: true }
PostUpsert(r) ==
    /\ req[r].kind = "postProgress" /\ req[r].pc = "upsert"
    /\ \/ /\ ProgressExists
          /\ progress' = Upsert(req[r].user.id, ProgressParam(req[r].doc))
          /\ req' = [req EXCEPT ![r] =
                [Respond(r, 200, [success |-> TRUE]) EXCEPT
                    !.queries = @ + 1, !.stamp = NextStamp]]
          /\ UNCHANGED faults
       \/ /\ ~ProgressExists
          /\ req' = [req EXCEPT ![r] =
                [Respond(r, 500, PostErrorBody) EXCEPT
                    !.queries = @ + 1, !.error = UndefinedTable]]
          /\ UNCHANGED <<faults, progress>>
       \/ /\ MayFail
          /\ faults' = faults + 1
          /\ req' = [req EXCEPT ![r] =
                [Respond(r, 500, PostErrorBody) EXCEPT
                    !.queries = @ + 1, !.error = ConnError]]
          /\ UNCHANGED progress
    /\ UNCHANGED <<users, device_registrations, nextId, now, variant, secretEnv, others>>

\* part_000: router.post('/logout', (req, res) => { res.clearCookie(
\* 'accessToken'); res.redirect('/'); }), mounted without the guard
Logout(r, token) ==
    /\ variant = "cookie"
    /\ req[r].pc = "idle"
    /\ req' = [req EXCEPT ![r] =
          [EmptyReq EXCEPT !.kind = "logout", !.pc = "done", !.at = now,
              !.cookieIn = token, !.status = 302, !.responses = 1,
              !.body = [redirect |-> "/"],
              !.cookie = [name |-> "accessToken", cleared |-> TRUE]]]
    /\ UNCHANGED <<users, device_registrations, progress, nextId, faults, now, variant, secretEnv, others>>

ProgNext ==
    \/ \E r \in Slots, t \in ProgTokens : GetStart(r, t)
    \/ \E r \in Slots : GetSelect(r)
    \/ \E r \in Slots : GetInsert(r)
    \/ \E r \in Slots, t \in ProgTokens, raw \in ProgBodies : PostStart(r, t, raw)
    \/ \E r \in Slots : PostUpsert(r)
    \/ \E r \in Slots, t \in LogoutTokens : Logout(r, t)
    \/ \E r \in Slots : LoginStart(r, "alice", "pw1")
    \/ \E r \in Slots : LoginFindUser(r)
    \/ \E r \in Slots : LoginCompare(r)
    \/ initializeDatabaseDrop
    \/ initializeDatabaseCreate
    \/ \E r \in Slots : RegStart(r, "bob", "pw2", "devB")
    \/ \E r \in Slots : RegStartNoBody(r)
    \/ \E r \in Slots : RegHash(r)
    \/ \E r \in Slots : RegConnect(r)
    \/ \E r \in Slots : RegBegin(r)
    \/ \E r \in Slots : RegDeviceCheck(r)
    \/ \E r \in Slots : RegDeviceUsed(r)
    \/ \E r \in Slots : RegInsertUser(r)
    \/ \E r \in Slots : RegInsertDevice(r)
    \/ \E r \in Slots : RegInsertProgress(r)
    \/ \E r \in Slots : RegCommit(r)
    \/ \E r \in Slots : RegCatch(r)

\* alice registered on day 0 and it is the day her first token expires; her
\* progress row is there, or is missing (initializeDatabase drops and
\* recreates a progress table of the old structure, leaving the users), or
\* server.js has just started on a store of the old structure (the
\* initializeDatabase of the newer server is not in src/)
ProgInit ==
    /\ OthersInit
    /\ variant \in {"legacy", "cookie"}
    /\ \/ (StoreAfter(1) \/ StoreRecreated) /\ SchemaReady
       \/ StoreOld /\ schema = "text" /\ variant = "legacy"
    /\ req = [r \in 1..MaxProg |-> EmptyReq]
    /\ faults = 0
    /\ now = ExpiresInDays
    /\ secretEnv = "configured-secret"

ProgSpec == ProgInit /\ [][ProgNext]_vars

---------------------------------------------------------------------------
\* Properties of POST /register (checked under RegSpec).

Registers == {r \in Slots : req[r].kind = "register"}
Answered(r) == req[r].kind = "register" /\ req[r].pc = "done"
\* the body carries a non-empty username, password and deviceId
Complete(r) ==
    /\ req[r].username \notin {Undefined, Empty}
    /\ req[r].password \notin {Undefined, Empty}
    /\ req[r].deviceId \notin {Undefined, Empty}
\* no storage call of the request failed
Faultless(r) == req[r].error \notin {ConnError, UndefinedTable}
\* the requests other than a and b touch neither their usernames nor deviceIds
Undisturbed(a, b) ==
    \A q \in Registers \ {a, b} :
        /\ req[q].username \notin {req[a].username, req[b].username}
        /\ req[q].deviceId \notin {req[a].deviceId, req[b].deviceId}
\* a and b carry all fields and found neither their usernames nor their
\* deviceIds committed when they started
RacingPair(a, b) ==
    /\ a # b /\ Answered(a) /\ Answered(b)
    /\ Complete(a) /\ Complete(b)
    /\ ~req[a].deviceSeen /\ ~req[b].deviceSeen
    /\ ~req[a].nameSeen /\ ~req[b].nameSeen
    /\ Faultless(a) /\ Faultless(b)
    /\ Undisturbed(a, b)

\* C1: at most one request carrying a given deviceId is answered 201, and
\* device_registrations never holds two rows with the same device_id.
C1_OneRegistrationPerDevice ==
    /\ \A a, b \in Registers :
          (req[a].status = 201 /\ req[b].status = 201
              /\ req[a].deviceId = req[b].deviceId) => a = b
    /\ \A a \in Registers :
          req[a].status = 201 =>
              DeviceRow(req[a].deviceId, req[a].newUser) \in device_registrations
    /\ \A x, y \in device_registrations : x.device_id = y.device_id => x = y

\* C1 witness: two requests with one deviceId are answered, one of them 201,
\* and the device's row is committed.
C1_Witness ==
    \E a, b \in Registers :
        /\ a # b /\ Answered(a) /\ Answered(b)
        /\ req[a].deviceId = req[b].deviceId
        /\ req[a].status = 201 /\ req[b].status # 201
        /\ \E x \in device_registrations : x.device_id = req[a].deviceId

\* C2: a request carrying all fields that starts after its deviceId was
\* committed is answered 403 whatever its username (taken or fresh), never 201
\* or 409; the only other answer is the 500 of a failed storage call.
C2_UsedDeviceForbidden ==
    \A r \in Registers :
        (Answered(r) /\ req[r].deviceSeen) =>
            /\ req[r].status \notin {201, 409}
            /\ \/ req[r].status = 403 /\ req[r].body = JsonError("DEVICE_USED")
               \/ req[r].status = 500 /\ ~Faultless(r)

\* C2 witness: a used device is refused with a fresh and with a taken username.
C2_Witness ==
    \E a, b \in Registers :
        /\ a # b
        /\ Answered(a) /\ req[a].deviceSeen /\ req[a].nameSeen /\ req[a].status = 403
        /\ Answered(b) /\ req[b].deviceSeen /\ ~req[b].nameSeen /\ req[b].status = 403

\* C3: two overlapping requests with one deviceId and two different unused
\* usernames: exactly one is answered 201, the other 403 or 409, and the
\* loser's user row is not committed.
C3_DeviceRaceOneWinner ==
    \A a, b \in Registers :
        (RacingPair(a, b) /\ req[a].deviceId = req[b].deviceId
            /\ req[a].username # req[b].username) =>
            \/ /\ req[a].status = 201 /\ req[b].status \in {403, 409}
               /\ \A u \in users : u.username # req[b].username
            \/ /\ req[b].status = 201 /\ req[a].status \in {403, 409}
               /\ \A u \in users : u.username # req[a].username

\* C3 witness: the loser had inserted its user row and lost on the device_id
\* constraint; its row is gone.
C3_Witness ==
    \E a, b \in Registers :
        /\ RacingPair(a, b) /\ req[a].deviceId = req[b].deviceId
        /\ req[a].username # req[b].username
        /\ req[a].status = 201 /\ req[b].status = 409 /\ req[b].newUser # 0
        /\ \A u \in users : u.username # req[b].username

\* C4 (as claimed): 409 is answered only when a user row with the request's
\* username exists; a registration refused for its deviceId is never a 409.
C4_ConflictNamesTheConstraint ==
    \A r \in Registers :
        (Answered(r) /\ req[r].status = 409) =>
            \E u \in users : u.username = req[r].username

\* C5: users never holds two rows with one username, and two overlapping
\* requests with one username and different unused deviceIds end with exactly
\* one 201 and exactly one 409.
C5_UsernameRaceOneWinner ==
    /\ \A x, y \in users : x.username = y.username => x = y
    /\ \A a, b \in Registers :
          (RacingPair(a, b) /\ req[a].username = req[b].username
              /\ req[a].deviceId # req[b].deviceId) =>
              \/ req[a].status = 201 /\ req[b].status = 409
              \/ req[b].status = 201 /\ req[a].status = 409

\* C5 witness: the pair has raced: one 201, one 409, one row for the username.
C5_Witness ==
    \E a, b \in Registers :
        /\ RacingPair(a, b) /\ req[a].username = req[b].username
        /\ req[a].deviceId # req[b].deviceId
        /\ req[a].status = 201 /\ req[b].status = 409
        /\ \E u \in users : u.username = req[a].username

\* C6: in every committed state each user row that a POST /register of the
\* run created has its device_registrations row and its progress row.
C6_AllOrNothing ==
    \A r \in Registers : \A u \in users :
        u.id = req[r].newUser =>
            /\ \E d \in device_registrations : d.user_id = u.id
            /\ \E p \in progress : p.user_id = u.id

TablesChanged ==
    \/ users' # users
    \/ device_registrations' # device_registrations
    \/ progress' # progress

\* C7: a step of a request changes the three tables only when it answers
\* the request 201: every step of a request answered 400, 403, 409 or 500
\* leaves them as they were.
C7_FailureLeavesTables ==
    [][(TablesChanged /\ req' # req) =>
         \E r \in Slots :
            /\ req[r].status = 0 /\ req'[r].status = 201
            /\ \A q \in Slots \ {r} : req'[q] = req[q]]_vars

\* C7 witness: a request that had inserted rows in its transaction was
\* answered 409 or 500 and none of its rows is committed.
C7_Witness ==
    \E r \in Registers :
        /\ Answered(r) /\ req[r].status \in {409, 500} /\ req[r].newUser # 0
        /\ \A u \in users : u.id # req[r].newUser
        /\ \A d \in device_registrations : d.user_id # req[r].newUser
        /\ \A p \in progress : p.user_id # req[r].newUser

\* C8: a request with username, password or deviceId missing or empty is
\* answered 400, takes no connection, opens no transaction and inserts no row.
C8_MissingFieldBadRequest ==
    \A r \in Registers :
        ~Complete(r) =>
            /\ req[r].pc = "done" /\ req[r].status = 400
            /\ req[r].body = JsonError("FIELDS_REQUIRED")
            /\ ~req[r].client /\ ~req[r].inTx
            /\ req[r].tx = NoTx /\ req[r].newUser = 0

---------------------------------------------------------------------------
\* Properties of POST /login and the session guard (checked under AuthSpec).

Logins == {r \in Slots : req[r].kind = "login"}
LoginAnswered(r) == req[r].kind = "login" /\ req[r].pc = "done"
\* the users row whose username and password the login body carries
Credentials(r) ==
    {u \in users : u.username = req[r].username
                    /\ u.password = <<"bcrypt", 10, req[r].password>>}
\* the login answered for a username without a row
UnknownUser(r) ==
    /\ LoginAnswered(r) /\ req[r].error = NoError
    /\ \A u \in users : u.username # req[r].username
\* the login answered for a registered username and another password
WrongPassword(r) ==
    /\ LoginAnswered(r) /\ req[r].error = NoError
    /\ \E u \in users : u.username = req[r].username
    /\ req[r].password \in Passwords
    /\ Credentials(r) = {}
\* the token a login response hands to the client, in its body or its cookie
TokensOf(r) ==
    (IF "accessToken" \in DOMAIN req[r].body THEN {req[r].body.accessToken} ELSE {})
    \cup (IF req[r].cookie # NoCookie THEN {req[r].cookie.value} ELSE {})

\* C9 (as claimed): an unknown username and a registered username with a
\* wrong password get the same status and the same body.
C9_LoginIndistinguishable ==
    \A a, b \in Logins :
        (UnknownUser(a) /\ WrongPassword(b)) =>
            req[a].status = req[b].status /\ req[a].body = req[b].body

\* C10: a login with a registered user's username and password is answered
\* with a token carrying that user's id and username; the guard lets a later
\* request bearing the token through (until the token expires) and attaches
\* that id and username; a login whose credentials match no user gets no token.
C10_LoginTokenAccepted ==
    /\ \A r \in Logins :
          /\ Credentials(r) = {} => TokensOf(r) = {}
          /\ (LoginAnswered(r) /\ req[r].error = NoError /\ Credentials(r) # {}) =>
                /\ req[r].status = IF variant = "legacy" THEN 200 ELSE 302
                /\ \E t \in TokensOf(r) : \E u \in Credentials(r) :
                      t.payload.id = u.id /\ t.payload.username = u.username
    /\ \A r \in Logins : \A p \in Slots :
          (/\ req[p].kind = "protected"
           /\ \E t \in TokensOf(r) :
                 req[p].header = [present |-> TRUE, parts |-> <<"Bearer", t>>]
                 /\ req[p].at < t.payload.exp) =>
              /\ req[p].pc = "handler"
              /\ \E u \in Credentials(r) :
                    req[p].user.id = u.id /\ req[p].user.username = u.username

\* C10 witness: alice logged in and a request bearing her token has passed
\* the guard as {id: 1, username: alice}.
C10_Witness ==
    \E r \in Logins : \E p \in Slots :
        /\ req[r].status = 200 /\ req[r].username = "alice"
        /\ req[p].kind = "protected" /\ req[p].pc = "handler"
        /\ req[p].header = [present |-> TRUE,
                            parts |-> <<"Bearer", req[r].body.accessToken>>]
        /\ req[p].user.id = 1 /\ req[p].user.username = "alice"

---------------------------------------------------------------------------
\* Properties of the guarded progress routes (checked under ProgSpec).

GuardedRequests ==
    {r \in Slots : req[r].kind \in {"getProgress", "postProgress"}}
\* the token of a Bearer header
Carried(r) == req[r].header.parts[2]
\* the request carried a token signed with the server's key and not expired
\* when it arrived
Verifies(r) ==
    /\ req[r].header.present
    /\ Carried(r).form = "jwt"
    /\ Carried(r).sig = Mac(Carried(r).payload, JWT_SECRET)
    /\ req[r].at < Carried(r).payload.exp
\* the handler behind the guard has not run for the request
HandlerNotRun(r) ==
    /\ req[r].pc = "done"
    /\ req[r].queries = 0 /\ req[r].stamp = 0 /\ ~req[r].notice

\* C11: under server.js a request to a protected route without a token is
\* answered 401, one whose token is tampered with or expired is answered
\* 403, in both cases the handler does not run and makes no query; a request
\* whose handler ran carried a token that verifies, and the handler sees that
\* token's payload as req.user.
C11_GuardRejects ==
    variant = "legacy" =>
        \A r \in GuardedRequests :
            /\ ~req[r].header.present => req[r].status = 401 /\ HandlerNotRun(r)
            /\ req[r].header.present /\ ~Verifies(r) =>
                    req[r].status = 403 /\ HandlerNotRun(r)
            /\ ~HandlerNotRun(r) \/ req[r].status \notin {401, 403} =>
                    Verifies(r) /\ req[r].user = Carried(r).payload

\* a request without a token was answered 401 and one with an expired, well
\* signed token 403
C11_Witness ==
    /\ variant = "legacy"
    /\ \E a, b \in GuardedRequests :
          /\ ~req[a].header.present /\ req[a].status = 401
          /\ req[b].header.present /\ req[b].status = 403
          /\ Carried(b).form = "jwt"
          /\ Carried(b).sig = Mac(Carried(b).payload, JWT_SECRET)
          /\ req[b].at >= Carried(b).payload.exp

Gets == {r \in Slots : req[r].kind = "getProgress"}
Posts == {r \in Slots : req[r].kind = "postProgress"}
\* the request passed the guard as the user with this id
By(r, userId) == req[r].user.id = userId /\ userId # 0
\* the successful saves and reads of a user
SavesOf(userId) == {p \in Posts : By(p, userId) /\ req[p].stamp > 0}
ReadsOf(userId) == {g \in Gets : By(g, userId) /\ req[g].status = 200}
UserIds == {u.id : u \in users}

\* C12: a GET /progress answered 200 to a user who has never saved carries
\* the default document {settings:{theme:"light"},lectures:{}} and leaves a
\* progress row for the user; a later GET of that user carries the same
\* document and does not initialize again.
C12_FirstReadCreatesDefault ==
    \A u \in UserIds : SavesOf(u) = {} =>
        \A g \in ReadsOf(u) :
            /\ req[g].body = emptyProgress
            /\ RowsOf(u) # {}
            /\ \A h \in ReadsOf(u) : req[h].stamp > req[g].stamp =>
                    req[h].body = req[g].body /\ ~req[h].notice

\* C13: the document stored for a user who has never saved is exactly
\* {settings:{theme:"light"},lectures:{}}, whether the row was inserted by
\* the registration or lazily by GET /progress, and the lazy GET answers
\* that document.  (Stated for the JSONB structure: a table an earlier
\* version left holds that version's text.)
C13_OneDefaultDocument ==
    /\ SchemaReady =>
            \A p \in progress : SavesOf(p.user_id) = {} => p.data = emptyProgress
    /\ SchemaReady =>
            \A r \in Registers : \A p \in req[r].tx.progress : p.data = emptyProgress
    /\ \A g \in Gets : req[g].notice => req[g].body = emptyProgress

\* the save a and the read g of one user, with no save of that user between
ReadsSave(a, g) ==
    /\ a \in Posts /\ g \in Gets
    /\ req[a].status = 200 /\ req[g].status = 200
    /\ By(a, req[g].user.id) /\ By(g, req[a].user.id)
    /\ req[a].stamp < req[g].stamp
    /\ \A b \in SavesOf(req[a].user.id) :
            ~(req[a].stamp < req[b].stamp /\ req[b].stamp < req[g].stamp)

\* C14: a GET /progress that follows a successful POST /progress of the same
\* user with body D, with no save of that user in between, is answered
\* exactly D, whatever was stored before.
C14_ReadReturnsSaved ==
    \A a, g \in Slots : ReadsSave(a, g) => req[g].body = req[a].doc

\* C15: once every successful POST /progress of a user carried the same
\* document D (sent once or twice, with or without a row before), the user
\* has one row and its data is D.
C15_SaveIdempotent ==
    \A u \in UserIds : \A a \in SavesOf(u) :
        (\A b \in SavesOf(u) : req[b].doc = req[a].doc) =>
            RowsOf(u) = {ProgressRow(u, req[a].doc)}

\* C16: when two POST /progress requests of one user with documents D1 and
\* D2 have both been answered and no storage call failed, both were answered
\* 200 and the user's rows are exactly one row holding D1 or one row holding
\* D2.
C16_ConcurrentSaves ==
    \A a, b \in Posts :
        /\ a # b /\ By(a, req[b].user.id)
        /\ req[a].pc = "done" /\ req[b].pc = "done"
        /\ req[a].doc # UndefinedBody /\ req[b].doc # UndefinedBody
        /\ Faultless(a) /\ Faultless(b)
        /\ SavesOf(req[a].user.id) \subseteq {a, b}
        => /\ req[a].status = 200 /\ req[b].status = 200
           /\ RowsOf(req[a].user.id) \in
                {{ProgressRow(req[a].user.id, req[a].doc)},
                 {ProgressRow(req[a].user.id, req[b].doc)}}

\* C17: the progress table never holds two rows with one user id, and holds
\* exactly one row for every user a POST /register answered 201 created.
C17_OneRowPerUser ==
    /\ \A p, q \in progress : p.user_id = q.user_id => p = q
    /\ \A r \in Registers : req[r].status = 201 =>
            Cardinality(RowsOf(req[r].newUser)) = 1

\* C18: when two GET /progress requests of a user without a progress row
\* have both been answered and no storage call failed, both were answered
\* 200 with the same default document and the user has exactly one row.
C18_LazyInitAtomic ==
    \A a, b \in Gets :
        /\ a # b /\ By(a, req[b].user.id)
        /\ ~req[a].rowSeen /\ ~req[b].rowSeen
        /\ req[a].pc = "done" /\ req[b].pc = "done"
        /\ Faultless(a) /\ Faultless(b)
        /\ SavesOf(req[a].user.id) = {}
        => /\ req[a].status = 200 /\ req[b].status = 200
           /\ req[a].body = req[b].body
           /\ Cardinality(RowsOf(req[a].user.id)) = 1

\* C19: a POST /progress without a body that passed the guard is answered
\* 400 and stores nothing.
C19_EmptyBodyRefused ==
    \A a \in Posts :
        req[a].user.id # 0 /\ req[a].raw = AbsentBody =>
            /\ req[a].pc = "done" => req[a].status = 400
            /\ req[a].stamp = 0 /\ req[a].queries = 0

\* C20: POST /logout clears the session cookie only for a request whose
\* accessToken cookie verifies, and answers a request without a token 401.
C20_LogoutGuarded ==
    \A l \in Slots : req[l].kind = "logout" =>
        /\ req[l].cookieIn = NullToken => req[l].status = 401
        /\ req[l].cookie # NoCookie =>
              /\ req[l].cookieIn.form = "jwt"
              /\ req[l].cookieIn.sig = Mac(req[l].cookieIn.payload, JWT_SECRET)
              /\ req[l].at < req[l].cookieIn.payload.exp

---------------------------------------------------------------------------
\* Properties of the signing secret and of the token's lifetime (checked
\* under AuthSpec).

\* the default secret written into the serving variant's source
BuiltInDefault ==
    IF variant = "legacy" THEN DefaultSecretLegacy ELSE DefaultSecretPlanner

\* C21: no login signs a token with the built-in default secret, and no
\* request passes the guard with a token signed with it.
C21_NoDefaultSecret ==
    /\ \A r \in Logins : \A t \in TokensOf(r) :
            t.sig # Mac(t.payload, BuiltInDefault)
    /\ \A p \in Slots :
            req[p].kind = "protected" /\ req[p].pc = "handler" =>
                req[p].header.parts[2].sig #
                    Mac(req[p].header.parts[2].payload, BuiltInDefault)

\* milliseconds of a day, the unit of a cookie's maxAge
MsPerDay == 24 * 60 * 60 * 1000

\* C22: a request bearing the token of a login of day t passes the guard of
\* server.js on every day before t + 7 and is answered 403 on every day
\* after t + 7; the token expires 7 days after it was issued, and the
\* cookie that carries it in the cookie variant lives the same 7 days.
C22_SevenDays ==
    /\ \A r \in Logins : \A t \in TokensOf(r) :
          /\ t.payload.exp = t.payload.iat + 7
          /\ req[r].cookie # NoCookie =>
                req[r].cookie.maxAge = (t.payload.exp - t.payload.iat) * MsPerDay
    /\ \A r \in Logins : \A p \in Slots : \A t \in TokensOf(r) :
          (req[p].kind = "protected"
             /\ req[p].header = [present |-> TRUE, parts |-> <<"Bearer", t>>]) =>
              /\ req[p].at < t.payload.iat + 7 => req[p].pc = "handler"
              /\ req[p].at > t.payload.iat + 7 =>
                    req[p].pc = "done" /\ req[p].status = 403

\* a token of day 0 was refused on a day after day 7
C22_Witness ==
    \E r \in Logins : \E p \in Slots :
        /\ req[r].status = 200 /\ req[r].body.accessToken.payload.iat = 0
        /\ req[p].kind = "protected" /\ req[p].status = 403
        /\ req[p].header = [present |-> TRUE,
                            parts |-> <<"Bearer", req[r].body.accessToken>>]
        /\ req[p].at > 7

---------------------------------------------------------------------------
\* Properties of the whole API (checked under ProgSpec).

\* C23: no step of a register, login, logout, GET /progress or POST
\* /progress request removes or changes a row of users or of
\* device_registrations; the two tables only gain rows, and only in the step
\* in which a POST /register is answered 201.
C23_WriteOnce ==
    [][/\ users \subseteq users'
       /\ device_registrations \subseteq device_registrations'
       /\ (users' # users \/ device_registrations' # device_registrations) =>
             \E r \in Slots :
                 /\ req[r].kind = "register" /\ req[r].status # 201
                 /\ req'[r].status = 201]_vars

\* a registration has added a user and a device while a login, a logout and
\* the progress routes were served
C23_Witness ==
    /\ Cardinality(users) = 2 /\ Cardinality(device_registrations) = 2
    /\ \E r \in Slots : req[r].kind \in {"login", "logout", "getProgress", "postProgress"}
                         /\ req[r].pc = "done"

---------------------------------------------------------------------------
\* The client: getDeviceId of public/js/auth.js and public/js/login.js, and
\* the register forms that call it.

\* the values crypto.randomUUID() may return
UUIDs == {"uuid-1", "uuid-2", "uuid-3"}

\* the pages with a register form
Pages == {"auth.js", "login.js"}

\* (mutant) getDeviceId generates an identifier on every call
getDeviceIdFresh(storage, uuid) ==
    [deviceId |-> uuid, generated |-> TRUE,
     storage |-> [storage EXCEPT !["deviceId"] = uuid]]

\* function getDeviceId(): let deviceId = localStorage.getItem('deviceId');
\* if (!deviceId) { deviceId = crypto.randomUUID();
\* localStorage.setItem('deviceId', deviceId); } return deviceId;
\* with uuid the value randomUUID returns when called.  The result is the
\* identifier, whether one was generated, and the storage afterwards.
getDeviceId(storage, uuid) ==
    LET deviceId == storage["deviceId"]
    IN  IF deviceId = Null \/ deviceId = Empty
        THEN [deviceId |-> uuid, generated |-> TRUE,
              storage |-> [storage EXCEPT !["deviceId"] = uuid]]
        ELSE [deviceId |-> deviceId, generated |-> FALSE, storage |-> storage]

\* the register form of a page is submitted: getDeviceId() is called and
\* api.register(username, password, deviceId) sends what it returned
SubmitRegister(page, uuid) ==
    /\ Len(calls) < MaxCalls
    /\ LET got == getDeviceId(localStorage, uuid)
       IN  /\ localStorage' = got.storage
           /\ calls' = Append(calls,
                  [page |-> page, deviceId |-> got.deviceId,
                   generated |-> got.generated, sent |-> TRUE])
    /\ UNCHANGED <<server, logs, image>>

\* the same, with localStorage.setItem throwing (storage full or disabled):
\* an identifier was generated, nothing is stored, getDeviceId does not
\* return and no request is sent
SubmitRegisterThrows(page, uuid) ==
    /\ Len(calls) < MaxCalls
    /\ getDeviceId(localStorage, uuid).generated
    /\ calls' = Append(calls,
          [page |-> page, deviceId |-> Null, generated |-> TRUE, sent |-> FALSE])
    /\ UNCHANGED <<localStorage, server, logs, image>>

ClientNext ==
    \/ \E page \in Pages, uuid \in UUIDs : SubmitRegister(page, uuid)
    \/ \E page \in Pages, uuid \in UUIDs : SubmitRegisterThrows(page, uuid)

\* a browser without a deviceId, or with the one an earlier visit stored;
\* the theme saved or not; the server at rest
ClientInit ==
    /\ localStorage \in [{"deviceId", "theme"} -> {Null, "light"} \cup UUIDs]
    /\ localStorage["theme"] \in {Null, "light"}
    /\ localStorage["deviceId"] \in {Null} \cup UUIDs
    /\ calls = <<>>
    /\ NoLogs /\ NoImage /\ SchemaReady
    /\ EmptyStore
    /\ req = [r \in 1..1 |-> EmptyReq]
    /\ faults = 0
    /\ now = 0
    /\ variant = "legacy"
    /\ secretEnv = "configured-secret"

ClientSpec == ClientInit /\ [][ClientNext]_vars

\* the calls that returned an identifier
Returned == {i \in 1..Len(calls) : calls[i].sent}

\* C24: of the getDeviceId calls of one browser that return, only the first
\* can generate an identifier, and then stores it; every call returns the
\* same identifier, which is the stored one, so every register request of
\* the browser carries the same deviceId.
C24_DeviceIdStable ==
    /\ \A i, j \in Returned : calls[i].deviceId = calls[j].deviceId
    /\ \A i, j \in Returned : i < j => ~calls[j].generated
    /\ \A i \in Returned : localStorage["deviceId"] = calls[i].deviceId

\* a first call generated an identifier and a call from the other page
\* returned it
C24_Witness ==
    \E i, j \in Returned :
        /\ i < j /\ calls[i].generated /\ calls[i].page # calls[j].page
        /\ calls[j].deviceId = calls[i].deviceId

---------------------------------------------------------------------------
\* Properties of the connection and the response of POST /register (checked
\* under RegSpec).

\* C25: a POST /register that has ended released the connection it acquired
\* exactly once, whether it committed, met a used device or failed (a
\* failing ROLLBACK included); no request releases a connection it does not
\* hold; and a request that attempted BEGIN attempted a COMMIT or a ROLLBACK
\* after it before it released.
C25_ConnectionReleasedOnce ==
    \A r \in Registers :
        /\ req[r].acquires <= 1 /\ req[r].releases <= req[r].acquires
        /\ req[r].client <=> (req[r].acquires = 1 /\ req[r].releases = 0)
        /\ req[r].pc = "done" => req[r].releases = req[r].acquires
        /\ req[r].txlog # <<>> => req[r].acquires = 1 /\ req[r].txlog[1] = "BEGIN"
        /\ req[r].releases = 1 =>
              /\ Len(req[r].txlog) >= 2
              /\ req[r].txlog[Len(req[r].txlog)] \in {"COMMIT", "ROLLBACK"}

\* a request whose ROLLBACK on the device-conflict path failed has ended
\* with its connection released
C25_Witness ==
    \E r \in Registers :
        /\ req[r].pc = "done" /\ req[r].acquires = 1 /\ req[r].releases = 1
        /\ req[r].txlog = <<"BEGIN", "ROLLBACK", "ROLLBACK">>

\* C26: a POST /register that has ended has sent exactly one response, and
\* a request still running has sent none.
C26_OneResponse ==
    \A r \in Registers :
        /\ req[r].pc = "done" => req[r].responses = 1
        /\ req[r].pc # "done" => req[r].responses = 0

\* a request on the device-conflict path was answered 403, once
C26_Witness ==
    \E r \in Registers :
        req[r].pc = "done" /\ req[r].status = 403 /\ req[r].responses = 1

---------------------------------------------------------------------------
\* Properties of the progress routes across users (checked under ProgSpec).

\* the token a guarded request carried, in its header or its cookie
TokenOf(q) == IF q.header.present THEN q.header.parts[2] ELSE q.cookieIn

\* C27: a step of a GET or POST /progress request acts as the user whose id
\* is in the request's token: it leaves every row of another user as it
\* was, adds or replaces no row but that user's, and a GET answers the
\* document of that user's row (a default document when there is none),
\* whatever the body of the request names.
C27_Isolated ==
    [][\A r \in Slots :
          (req'[r].kind \in {"getProgress", "postProgress"} /\ req'[r] # req[r]) =>
              LET me == req'[r].user.id
              IN  /\ me # 0 => me = TokenOf(req'[r]).payload.id
                  /\ \A p \in progress : p.user_id # me => p \in progress'
                  /\ \A p \in progress' \ progress : p.user_id = me
                  /\ (req'[r].kind = "getProgress" /\ req'[r].status = 200) =>
                        \/ \E p \in progress' :
                              p.user_id = me /\ req'[r].body = p.data
                        \/ /\ \A p \in progress : p.user_id # me
                           /\ req'[r].body \in {emptyProgress, emptyWithWeek}]_vars

\* the second user saved a document that names the first user, whose row
\* holds another document
C27_Witness ==
    \E a \in Posts :
        /\ req[a].status = 200 /\ req[a].user.id = 2 /\ req[a].doc = DocForged
        /\ ProgressRow(2, DocForged) \in progress
        /\ ProgressRow(1, emptyProgress) \in progress

\* C28: when a GET /progress that found no row and a POST /progress saving D
\* for the same user have both been answered, no storage call failed and D
\* is the user's only save, the user's rows are exactly one row holding D.
C28_LazyInitKeepsSaved ==
    \A g \in Gets : \A a \in Posts :
        /\ By(g, req[a].user.id)
        /\ ~req[g].rowFound /\ req[g].queries > 0
        /\ req[g].pc = "done" /\ req[a].pc = "done"
        /\ req[a].doc # UndefinedBody
        /\ Faultless(g) /\ Faultless(a)
        /\ SavesOf(req[a].user.id) = {a}
        => RowsOf(req[a].user.id) = {ProgressRow(req[a].user.id, req[a].doc)}

---------------------------------------------------------------------------
\* The client-log intake, POST /log (src/unnamed/part_000:13-60).

\* what express reports as req.ip (the client address, taken from the
\* proxy headers when the application trusts the proxy), or nothing
LogIps == {"203.0.113.7", Undefined}

\* req.connection?.remoteAddress: the address of the socket, or nothing
\* (no connection object, or a socket already destroyed)
LogAddrs == {"198.51.100.9", Undefined}

\* const ip = req.ip || req.connection?.remoteAddress || 'unknown'
IpOf(reqIp, remoteAddress) ==
    IF ~Falsy(reqIp) THEN reqIp
    ELSE IF ~Falsy(remoteAddress) THEN remoteAddress
    ELSE "unknown"

\* the keys of logRate the requests of the model are counted under
LogKeys == {IpOf(i, a) : i \in LogIps, a \in LogAddrs}

\* Date.now() at the k-th tick of the clock: 0, one window later, one
\* millisecond after that, one more window later, ...
LogTime(k) == (k \div 2) * (LogWindowMs + 1) + (k % 2) * LogWindowMs

\* the requests of one window the model lets an address send
LogCap(ip) == IF ip = "203.0.113.7" THEN MaxLog ELSE MaxOther

\* const entry = logRate.get(ip) || { count: 0, reset: now + 60_000 };
\* if (now > entry.reset) { entry.count = 0; entry.reset = now + 60_000; }
\* entry.count += 1;
Counted(stored, at) ==
    LET entry == IF stored.present THEN stored
                 ELSE [present |-> TRUE, count |-> 0, reset |-> at + LogWindowMs]
        fresh == IF at > entry.reset
                 THEN [entry EXCEPT !.count = 0, !.reset = at + LogWindowMs]
                 ELSE entry
    IN  [fresh EXCEPT !.count = @ + 1]

\* (mutant) the limit is reached by the entry that equals it
OverLimitAt(entry) == entry.count >= LOG_LIMIT_PER_MIN

\* if (entry.count > LOG_LIMIT_PER_MIN)
OverLimit(entry) == entry.count > LOG_LIMIT_PER_MIN

\* the level field of the body sent
LogLevels == {"warn", "verbose"}

\* const { level = 'info', ... } = req.body || {};
\* const lvl = allowed.includes(level) ? level : 'info'
Lvl(level) ==
    IF level \in {"debug", "info", "warn", "error"} THEN level ELSE "info"

\* the requests of the address since its window started, as an observer
\* counts them: the window starts at a request the handler counted as 1 and
\* lasts LogWindowMs; a request at the very end of it is in the window the
\* handler put it in
Observed(hist, entry, at) ==
    IF ~hist.present \/ at > hist.start + LogWindowMs
       \/ (at = hist.start + LogWindowMs /\ entry.count = 1)
    THEN [present |-> TRUE, start |-> at, n |-> 1]
    ELSE [hist EXCEPT !.n = @ + 1]

\* router.post('/log', ...): count the request; over the limit answer 429
\* and log nothing; otherwise write the client's entry to the server log and
\* answer 200, or, when building or writing the entry throws, write the
\* warning of the catch block and answer 200.  The warning is one more call
\* of the same logger outside any try: when it throws too the handler
\* throws with nothing written and nothing answered (express answers for
\* it with its error response, 500).
PostLog(reqIp, remoteAddress, level) ==
    LET ip == IpOf(reqIp, remoteAddress)
        entry == Counted(logRate[ip], clock)
    IN  /\ entry.count <= LogCap(ip)
        /\ logRate' = [logRate EXCEPT ![ip] = entry]
        /\ logHist' = [logHist EXCEPT ![ip] = Observed(@, entry, clock)]
        /\ IF OverLimit(entry)
           THEN lastLog' = [ip |-> ip, status |-> 429, level |-> "none",
                            src |-> "none", threw |-> FALSE]
           ELSE \/ lastLog' = [ip |-> ip, status |-> 200,
                               level |-> Lvl(level), src |-> "client",
                               threw |-> FALSE]
                \/ lastLog' = [ip |-> ip, status |-> 200,
                               level |-> "warn", src |-> "api.log",
                               threw |-> FALSE]
                \/ lastLog' = [ip |-> ip, status |-> 0,
                               level |-> "none", src |-> "none",
                               threw |-> TRUE]
        /\ UNCHANGED <<clock, server, client, image>>

\* time passes
LogTick ==
    /\ \E k \in 1..MaxTick : clock = LogTime(k - 1) /\ clock' = LogTime(k)
    /\ UNCHANGED <<logRate, logHist, lastLog, server, client, image>>

LogNext ==
    \/ \E reqIp \in LogIps, remoteAddress \in LogAddrs, level \in LogLevels :
            PostLog(reqIp, remoteAddress, level)
    \/ LogTick

\* the newer server just started: no address counted, nothing logged
LogInit ==
    /\ NoLogs /\ NoClient /\ NoImage /\ SchemaReady
    /\ EmptyStore
    /\ req = [r \in 1..1 |-> EmptyReq]
    /\ faults = 0
    /\ now = 0
    /\ variant = "cookie"
    /\ secretEnv = "configured-secret"

LogSpec == LogInit /\ [][LogNext]_vars

\* C29: a POST /log that is the n-th request of its address in the window
\* that started with the address's first counted request and lasts 60
\* seconds is answered 429 and writes nothing to the server log when n > 120;
\* when n <= 120 it is not refused: it is answered 200 with one entry
\* written, or, when the logger threw in the handler and again in its catch
\* block, the handler throws with none; the first request after the window
\* has ended is counted as 1; and the request leaves the counters of every
\* other address as they were.
C29_RateLimited ==
    [][\A ip \in LogKeys :
          logHist'[ip] # logHist[ip] =>
              LET n == logHist'[ip].n
              IN  /\ lastLog'.ip = ip
                  /\ n > 120 => /\ lastLog'.status = 429 /\ lastLog'.src = "none"
                                /\ ~lastLog'.threw
                  /\ n <= 120 => \/ /\ lastLog'.status = 200
                                    /\ lastLog'.src # "none" /\ ~lastLog'.threw
                                 \/ /\ lastLog'.threw
                                    /\ lastLog'.status = 0 /\ lastLog'.src = "none"
                  /\ logRate'[ip].count = n
                  /\ (logHist[ip].present /\ clock > logHist[ip].start + 60000)
                        => n = 1
                  /\ \A other \in LogKeys \ {ip} :
                        /\ logRate'[other] = logRate[other]
                        /\ logHist'[other] = logHist[other]]_vars

\* in a window that began after its first window had ended, an address is
\* refused its 121st request, while a request without req.ip has been
\* counted once under its socket's address and one without either under
\* 'unknown'
C29_Witness ==
    /\ lastLog.ip = "203.0.113.7" /\ lastLog.status = 429
    /\ logHist["203.0.113.7"].n = 121
    /\ logHist["203.0.113.7"].start > 60000
    /\ logRate["198.51.100.9"].count = 1
    /\ logRate["unknown"].count = 1
    /\ logRate["unknown"].reset < logRate["203.0.113.7"].reset

---------------------------------------------------------------------------
\* The image proxy, GET /image (src/unnamed/part_000:216-320): the handler
\* behind the guard.  The handler waits at fetch(...) and then at
\* upstream.arrayBuffer() or upstream.text(); each wait ends one step, and
\* other GET /image requests are served between the steps.  (POST /log reads
\* and writes logRate and the server log only, which this handler does not
\* touch: LogSpec has its steps.)

\* host names as sequences of labels: a.b.c is <<"a", "b", "c">>
R2Host == <<"pub-8e1f6da67eed4033b14228e6b9e1393c", "r2", "dev">>
GoogleHost == <<"googleusercontent", "com">>

\* const ALLOWED_IMAGE_HOSTS = [...]
ALLOWED_IMAGE_HOSTS == {R2Host, GoogleHost}

\* the url parameters clients send: none, text that is no URL, and URLs
RawUrls ==
    {[given |-> FALSE, wellFormed |-> FALSE, scheme |-> "", host |-> <<>>],
     [given |-> TRUE, wellFormed |-> FALSE, scheme |-> "", host |-> <<>>],
     [given |-> TRUE, wellFormed |-> TRUE, scheme |-> "HTTPS",
      host |-> <<"LH3", "GOOGLEUSERCONTENT", "COM">>],
     [given |-> TRUE, wellFormed |-> TRUE, scheme |-> "https", host |-> R2Host],
     [given |-> TRUE, wellFormed |-> TRUE, scheme |-> "http",
      host |-> <<"lh3">> \o GoogleHost],
     [given |-> TRUE, wellFormed |-> TRUE, scheme |-> "https",
      host |-> <<"evilgoogleusercontent", "com">>],
     [given |-> TRUE, wellFormed |-> TRUE, scheme |-> "https",
      host |-> GoogleHost \o <<"evil", "example">>]}

\* the URL parser writes the scheme and the host in lower case
Lower(s) ==
    IF s = "HTTPS" THEN "https"
    ELSE IF s = "LH3" THEN "lh3"
    ELSE IF s = "GOOGLEUSERCONTENT" THEN "googleusercontent"
    ELSE IF s = "COM" THEN "com"
    ELSE s

\* new URL(raw): protocol, hostname and origin of a well-formed URL
NewURL(raw) ==
    [protocol |-> Lower(raw.scheme) \o ":",
     hostname |-> [i \in 1..Len(raw.host) |-> Lower(raw.host[i])]]

\* hostname.endsWith('.' + allowedHost)
EndsWithDot(hostname, allowedHost) ==
    /\ Len(hostname) > Len(allowedHost)
    /\ SubSeq(hostname, Len(hostname) - Len(allowedHost) + 1, Len(hostname))
         = allowedHost

\* const isAllowedHost = (hostname) => ALLOWED_IMAGE_HOSTS.some(...)
isAllowedHost(hostname) ==
    \E allowedHost \in ALLOWED_IMAGE_HOSTS :
        hostname = allowedHost \/ EndsWithDot(hostname, allowedHost)

\* (mutant) the proxy checks the host and not the protocol
ProxiedAnyProtocol(urlObj) == isAllowedHost(urlObj.hostname)

\* the negation of: if (urlObj.protocol !== 'https:' ||
\* !isAllowedHost(urlObj.hostname)) return res.status(400)...
Proxied(urlObj) ==
    urlObj.protocol = "https:" /\ isAllowedHost(urlObj.hostname)

\* const trials = [...]: the Referer/Origin of the three header variants
Trials == <<"sites.google.com", "none", "urlObj.origin">>

\* how await fetch(...) ends: a response with upstream.ok, a response that
\* is not ok, or fetch throwing
Upstream ==
    {[kind |-> "response", status |-> 200], [kind |-> "notOk", status |-> 403],
     [kind |-> "notOk", status |-> 404], [kind |-> "threw", status |-> 0]}

\* an upstream request that has been made and not answered yet
Pending == [kind |-> "pending", status |-> 0]

\* String(lastStatus)
StatusString(n) ==
    IF n = 0 THEN "0" ELSE IF n = 403 THEN "403"
    ELSE IF n = 404 THEN "404" ELSE IF n = 200 THEN "200" ELSE "other"

\* the requests being served
ImageSlots == 1..MaxImage

\* upstream requests made so far by all the requests
RECURSIVE FetchedUpTo(_)
FetchedUpTo(s) ==
    IF s = 0 THEN 0 ELSE Len(image[s].fetched) + FetchedUpTo(s - 1)

\* the request with the outcome of its latest upstream request recorded
Met(r, outcome) ==
    [r EXCEPT !.fetched[Len(r.fetched)].outcome = outcome]

\* fetch(urlObj.toString(), { headers: t.headers, ... }) of the next header
\* variant is called and awaited
Fetching(r) ==
    [r EXCEPT !.pc = "fetch",
              !.fetched = Append(@, [hostname |-> r.hostname,
                                     headers |-> Trials[Len(r.fetched) + 1],
                                     outcome |-> Pending])]

\* after the loop: the placeholder SVG with X-Upstream-Status
Placeholder(r) ==
    [r EXCEPT !.pc = "done",
              !.xUpstreamStatus = StatusString(r.lastStatus),
              !.status = 200, !.body = "placeholder",
              !.contentType = "image/svg+xml; charset=utf-8",
              !.cacheControl = "public, max-age=600"]

\* the end of one turn of for (const t of trials) that did not return: the
\* next header variant, or after the last one the placeholder
Continued(r) ==
    IF Len(r.fetched) < Len(Trials) THEN Fetching(r) ELSE Placeholder(r)

\* the model lets the turn end: the placeholder, or one more upstream request
\* within the bound
MayContinue(s) ==
    Len(image[s].fetched) = Len(Trials) \/ FetchedUpTo(MaxImage) < MaxFetch

\* GET /image arrives (the requests are numbered in the order they arrive):
\* 400 without the parameter, for text that is no URL, and for a URL that is
\* not https or whose host is not allowed; otherwise the first upstream
\* request is made and awaited
ImageStart(s, raw) ==
    /\ image[s].pc = "idle"
    /\ \A t \in 1..(s - 1) : image[t].pc # "idle"
    /\ IF ~raw.given \/ ~raw.wellFormed \/ ~Proxied(NewURL(raw))
       THEN image' = [image EXCEPT ![s] =
                [NoRequest EXCEPT !.pc = "done", !.raw = raw, !.status = 400,
                                  !.body = "text"]]
       ELSE /\ FetchedUpTo(MaxImage) < MaxFetch
            /\ image' = [image EXCEPT ![s] =
                Fetching([NoRequest EXCEPT !.raw = raw,
                                  !.hostname = NewURL(raw).hostname])]
    /\ UNCHANGED <<server, client, logs>>

\* await fetch(...) ends.  An ok response: Content-Type and Cache-Control
\* are set and the body is awaited.  A response that is not ok: lastStatus
\* is its status and its text is awaited.  fetch threw: lastStatus is 0 and
\* the loop goes on.
ImageTrial(s, outcome) ==
    /\ image[s].pc = "fetch"
    /\ outcome.kind = "threw" => MayContinue(s)
    /\ image' = [image EXCEPT ![s] =
         IF outcome.kind = "response"
         THEN [Met(@, outcome) EXCEPT !.pc = "body",
                    !.contentType = "upstream",
                    !.cacheControl = "public, max-age=86400"]
         ELSE IF outcome.kind = "notOk"
         THEN [Met(@, outcome) EXCEPT !.pc = "text",
                    !.lastStatus = outcome.status]
         ELSE Continued([Met(@, outcome) EXCEPT !.lastStatus = 0])]
    /\ UNCHANGED <<server, client, logs>>

\* await upstream.arrayBuffer() ends: the body is sent with status 200, or
\* reading it threw: lastStatus is 0 and the loop goes on
ImageBody(s, arrived) ==
    /\ image[s].pc = "body"
    /\ ~arrived => MayContinue(s)
    /\ image' = [image EXCEPT ![s] =
         IF arrived
         THEN [Met(@, [kind |-> "ok", status |-> 200]) EXCEPT
                    !.pc = "done", !.status = 200, !.body = "upstream"]
         ELSE Continued([Met(@, [kind |-> "bodyThrew", status |-> 200])
                            EXCEPT !.lastStatus = 0])]
    /\ UNCHANGED <<server, client, logs>>

\* await upstream.text().catch(() => '') ends: the loop goes on
ImageText(s) ==
    /\ image[s].pc = "text"
    /\ MayContinue(s)
    /\ image' = [image EXCEPT ![s] = Continued(@)]
    /\ UNCHANGED <<server, client, logs>>

ImageNext ==
    \/ \E s \in ImageSlots, raw \in RawUrls : ImageStart(s, raw)
    \/ \E s \in ImageSlots, outcome \in Upstream : ImageTrial(s, outcome)
    \/ \E s \in ImageSlots, arrived \in BOOLEAN : ImageBody(s, arrived)
    \/ \E s \in ImageSlots : ImageText(s)

\* the newer server at rest
ImageInit ==
    /\ NoImage /\ NoLogs /\ NoClient /\ SchemaReady
    /\ EmptyStore
    /\ req = [r \in 1..1 |-> EmptyReq]
    /\ faults = 0
    /\ now = 0
    /\ variant = "cookie"
    /\ secretEnv = "configured-secret"

ImageSpec == ImageInit /\ [][ImageNext]_vars

\* the attempt got a successful response and its body
Succeeded(f) == f.outcome.kind = "ok"
\* the attempt is over and did not succeed
Failed(f) == f.outcome.kind \in {"notOk", "threw", "bodyThrew"}
\* the host is an allowed host or a subdomain of one
AllowedOrSubdomain(host) ==
    \E a \in {GoogleHost, R2Host} :
        \E i \in 1..Len(host) : SubSeq(host, i, Len(host)) = a

\* C30: for every GET /image request, the proxy has made upstream requests
\* only for a URL that is https and whose host is an allowed host or a
\* subdomain of one; at most three, with the header variants in their fixed
\* order, each made after the one before it had failed, and none after an
\* attempt that succeeded (an ok response whose body arrived); nothing is
\* answered while an attempt is awaited; a request answered after an attempt
\* succeeded returns the upstream body; otherwise an allowed URL is answered
\* the placeholder SVG with status 200 after three failed attempts,
\* X-Upstream-Status carrying the status of the last one (0 when it threw).
C30_ImageProxy ==
    \A s \in ImageSlots :
        LET r == image[s]
            n == Len(r.fetched)
        IN  /\ n > 0 =>
                  /\ Lower(r.raw.scheme) = "https"
                  /\ AllowedOrSubdomain(r.hostname)
                  /\ \A i \in 1..n : r.fetched[i].hostname = r.hostname
            /\ n <= 3
            /\ \A i \in 1..n : r.fetched[i].headers = Trials[i]
            /\ \A i \in 1..(n - 1) : Failed(r.fetched[i])
            /\ r.pc \in {"fetch", "body", "text"} =>
                  /\ n > 0 /\ ~Succeeded(r.fetched[n])
                  /\ r.status = 0 /\ r.body = "none"
            /\ (r.pc = "done" /\ n > 0 /\ Succeeded(r.fetched[n])) =>
                  /\ r.status = 200 /\ r.body = "upstream"
                  /\ r.xUpstreamStatus = "unset"
            /\ (r.pc = "done" /\ n > 0 /\ ~Succeeded(r.fetched[n])) =>
                  /\ n = 3 /\ Failed(r.fetched[3])
                  /\ r.status = 200 /\ r.body = "placeholder"
                  /\ r.xUpstreamStatus =
                        IF r.fetched[3].outcome.kind = "notOk"
                        THEN StatusString(r.fetched[3].outcome.status)
                        ELSE "0"
            /\ (r.pc = "done" /\ n = 0) => r.status = 400

\* a URL written in capitals was fetched three times without success (the
\* body of an ok response failed to arrive, fetch threw, the last attempt
\* was answered 404) and the placeholder was returned, while another request
\* has set the headers of an ok response and waits for its body
C30_Witness ==
    \E s, t \in ImageSlots :
        /\ image[s].pc = "done" /\ image[s].body = "placeholder"
        /\ image[s].raw.scheme = "HTTPS"
        /\ Len(image[s].fetched) = 3
        /\ image[s].fetched[1].outcome.kind = "bodyThrew"
        /\ image[s].fetched[2].outcome.kind = "threw"
        /\ image[s].fetched[3].outcome.status = 404
        /\ image[s].xUpstreamStatus = "404"
        /\ image[t].pc = "body" /\ image[t].contentType = "upstream"
        /\ image[t].status = 0

====
